---- MODULE Spec2Model ----
(***************************************************************************)
(* Replicated work queue of auto-cluster-sync-demo: one SQLite store per   *)
(* node (internal/database), Serf user events applied by the cluster event *)
(* loop (internal/cluster), the HTTP handlers (internal/api) and the       *)
(* single-slot job worker (internal/worker).                               *)
(***************************************************************************)
EXTENDS Integers, Sequences, FiniteSets, TLC

(***************************************************************************)
(* Bounds of the model.                                                    *)
(***************************************************************************)
\* The clock runs 1..MaxTime; one unit is one stale timeout (30 s).
MaxTime == 3
\* AUTOINCREMENT ids handed out per store: at most MaxID rows are ever inserted.
MaxID == 2
\* Events a node's event channel holds before the sender has to wait.
MaxInbox == 1

Nodes == {"n1", "n2"}
ExternIDs == {"x", "y"}
Todos == {"a", "b"}

(***************************************************************************)
(* models.Todo and its processing states.                                  *)
(***************************************************************************)
StatusPending == "pending"
StatusClaimed == "claimed"
StatusProcessing == "processing"
StatusCompleted == "completed"
StatusFailed == "failed"

\* A nil pointer / SQL NULL is the empty sequence, a set value v is <<v>>.
NULL == <<>>
Some(v) == <<v>>

\* Worker.staleJobTimeout (30 s), in clock units.
staleJobTimeout == 1

EventTodoCreated == "todo:created"
EventTodoUpdated == "todo:updated"
EventTodoDeleted == "todo:deleted"
EventJobClaimed == "job:claimed"
EventJobStarted == "job:started"
EventJobHeartbeat == "job:heartbeat"
EventJobCompleted == "job:completed"
EventJobFailed == "job:failed"
EventJobReleased == "job:released"

TodoEventNames == {EventTodoCreated, EventTodoUpdated, EventTodoDeleted}
JobEventNames == {EventJobClaimed, EventJobStarted, EventJobHeartbeat,
                  EventJobCompleted, EventJobFailed, EventJobReleased}

VARIABLES
    store,      \* store[n]: the rows of table todos in node n's database file
    nextID,     \* nextID[n]: the next AUTOINCREMENT id of node n's table
    now,        \* time.Now()
    inbox,      \* inbox[n]: user events Serf has queued on node n's eventCh
    worker,     \* worker[n]: position of node n's worker goroutine and its job
    claimTx,    \* claimTx[c]: the open transaction of caller c's ClaimNextPendingTodo
    holders,    \* holders[d]: <<row id, caller>> pairs ClaimNextPendingTodo returned on store d since the row's last release
    members,    \* the nodes Serf's gossip reaches: the members of the cluster
    handled,    \* the node and event header of handleUserEvent when it ran in the last step, else NULL
    lookup,     \* the event whose handler found its extern_id absent and has yet to insert, else NULL
    boot        \* the start-up of the cluster layer: Start, requestFullSync, the full-state query

vars == <<store, nextID, now, inbox, worker, claimTx, holders, members, handled, lookup, boot>>

(***************************************************************************)
(* internal/database: every operation as a function of the table's rows.   *)
(***************************************************************************)
\* The row CreateTodo inserts: the schema defaults fill the job columns.
NewTodo(id, externID, todo, t) ==
    [id |-> id, extern_id |-> externID, todo |-> todo, completed |-> FALSE,
     created_at |-> t, processing_status |-> StatusPending,
     claimed_by |-> NULL, claimed_at |-> NULL, last_heartbeat |-> NULL,
     processing_started_at |-> NULL, processing_completed_at |-> NULL]

\* CREATE UNIQUE INDEX idx_todos_extern_id: would inserting externID violate it?
UniqueViolation(rows, externID) == \E r \in rows : r.extern_id = externID

\* An INSERT OR REPLACE: the row holding the extern_id gives way to the new one.
CreateTodoReplace(rows, id, externID, todo, t) ==
    [err |-> FALSE,
     rows |-> {r \in rows : r.extern_id # externID} \cup {NewTodo(id, externID, todo, t)}]
\* An INSERT into a table without the unique index on extern_id.
CreateTodoNoIndex(rows, id, externID, todo, t) ==
    [err |-> FALSE, rows |-> rows \cup {NewTodo(id, externID, todo, t)}]
\* CreateTodo: INSERT; fails on the unique index, else adds the row.
CreateTodo(rows, id, externID, todo, t) ==
    IF UniqueViolation(rows, externID)
    THEN [err |-> TRUE, rows |-> rows]
    ELSE [err |-> FALSE, rows |-> rows \cup {NewTodo(id, externID, todo, t)}]

\* GetTodo / GetTodoByExternID: the matching rows (empty = nil, nil).
GetTodo(rows, id) == {r \in rows : r.id = id}
GetTodoByExternID(rows, externID) == {r \in rows : r.extern_id = externID}

\* An update that also puts the row back in the queue.
UpdateTodoRequeue(rows, id, todo, completed) ==
    { IF r.id = id
      THEN [r EXCEPT !.todo = IF todo # NULL THEN todo[1] ELSE @,
                     !.completed = IF completed # NULL THEN completed[1] ELSE @,
                     !.processing_status = StatusPending]
      ELSE r : r \in rows }

\* UpdateTodo: sets the supplied columns (nil = not supplied) of row id.
UpdateTodo(rows, id, todo, completed) ==
    { IF r.id = id
      THEN [r EXCEPT !.todo = IF todo # NULL THEN todo[1] ELSE @,
                     !.completed = IF completed # NULL THEN completed[1] ELSE @]
      ELSE r : r \in rows }

\* DeleteTodo: DELETE FROM todos WHERE id = ?.
DeleteTodo(rows, id) == {r \in rows : r.id # id}

\* CountTodos.
CountTodos(rows) == Cardinality(rows)

\* A SELECT without the ORDER BY: any pending, not completed row.
ClaimCandidatesUnordered(rows) ==
    {r \in rows : r.processing_status = StatusPending /\ ~r.completed}

\* The SELECT of ClaimNextPendingTodo: the pending, not completed rows with
\* the smallest created_at (ORDER BY created_at ASC LIMIT 1 returns one of them).
ClaimCandidates(rows) ==
    LET P == {r \in rows : r.processing_status = StatusPending /\ ~r.completed}
    IN  {r \in P : \A q \in P : r.created_at <= q.created_at}

\* The rows the UPDATE of ClaimNextPendingTodo matches.
ClaimMatch(rows, id) ==
    {r \in rows : r.id = id /\ r.processing_status = StatusPending}

\* The SET clause of that UPDATE applied to the matched rows.
ClaimUpdateRows(rows, matched, nodeID, t) ==
    { IF r \in matched
      THEN [r EXCEPT !.processing_status = StatusClaimed,
                     !.claimed_by = Some(nodeID),
                     !.claimed_at = Some(t),
                     !.last_heartbeat = Some(t)]
      ELSE r : r \in rows }

\* An UPDATE by id alone, outside the transaction and without the status guard.
ClaimUpdateNoTx(rows, stale, id, nodeID, t) ==
    LET matched == {r \in rows : r.id = id}
    IN  [err |-> FALSE, affected |-> matched,
         rows |-> ClaimUpdateRows(rows, matched, nodeID, t)]
\* The guarded UPDATE on a connection that never fails on a stale snapshot.
ClaimUpdateNoSnapshot(rows, stale, id, nodeID, t) ==
    LET matched == ClaimMatch(rows, id)
    IN  [err |-> FALSE, affected |-> matched,
         rows |-> ClaimUpdateRows(rows, matched, nodeID, t)]
\* The UPDATE and COMMIT of ClaimNextPendingTodo inside its transaction.  The
\* transaction read its snapshot at the SELECT (journal_mode=WAL); when another
\* connection committed a write since (stale), SQLite refuses the upgrade to a
\* write transaction (SQLITE_BUSY_SNAPSHOT) and the call returns the error.
\* Otherwise the guarded UPDATE runs; no row affected returns nil, nil.
ClaimUpdate(rows, stale, id, nodeID, t) ==
    IF stale
    THEN [err |-> TRUE, affected |-> {}, rows |-> rows]
    ELSE LET matched == ClaimMatch(rows, id)
         IN  [err |-> FALSE, affected |-> matched,
              rows |-> ClaimUpdateRows(rows, matched, nodeID, t)]

\* An UPDATE of the status column alone.
UpdateJobStatusNoStamp(rows, externID, status, t) ==
    { IF r.extern_id = externID
      THEN [r EXCEPT !.processing_status = status]
      ELSE r : r \in rows }
\* UpdateJobStatus: sets the status; completed/failed also stamp processing_completed_at.
UpdateJobStatus(rows, externID, status, t) ==
    { IF r.extern_id = externID
      THEN [r EXCEPT !.processing_status = status,
                     !.processing_completed_at =
                         IF status \in {StatusCompleted, StatusFailed}
                         THEN Some(t) ELSE @]
      ELSE r : r \in rows }

\* A WHERE clause without claimed_by = ?.
HeartbeatMatchAnyOwner(rows, externID, nodeID) ==
    {r \in rows : r.extern_id = externID
                  /\ r.processing_status \in {StatusClaimed, StatusProcessing}}

\* SendHeartbeat: the rows its UPDATE matches (none = error "not owned").
HeartbeatMatch(rows, externID, nodeID) ==
    {r \in rows : r.extern_id = externID /\ r.claimed_by = Some(nodeID)
                  /\ r.processing_status \in {StatusClaimed, StatusProcessing}}
SendHeartbeat(rows, externID, nodeID, t) ==
    { IF r \in HeartbeatMatch(rows, externID, nodeID)
      THEN [r EXCEPT !.last_heartbeat = Some(t)]
      ELSE r : r \in rows }

\* A GetStaleJobs whose cutoff is inclusive (last_heartbeat <= cutoff).
GetStaleJobsInclusive(rows, timeout, t) ==
    {r \in rows : r.processing_status \in {StatusClaimed, StatusProcessing}
                  /\ r.last_heartbeat # NULL
                  /\ r.last_heartbeat[1] <= t - timeout}

\* GetStaleJobs: claimed or processing rows whose heartbeat is older than the cutoff.
GetStaleJobs(rows, timeout, t) ==
    {r \in rows : r.processing_status \in {StatusClaimed, StatusProcessing}
                  /\ r.last_heartbeat # NULL
                  /\ r.last_heartbeat[1] < t - timeout}

\* A release of held jobs only: WHERE processing_status IN (claimed, processing).
ReleaseJobIfHeld(rows, externID) ==
    { IF r.extern_id = externID
         /\ r.processing_status \in {StatusClaimed, StatusProcessing}
      THEN [r EXCEPT !.processing_status = StatusPending,
                     !.claimed_by = NULL,
                     !.claimed_at = NULL,
                     !.last_heartbeat = NULL,
                     !.processing_started_at = NULL]
      ELSE r : r \in rows }

\* ReleaseJob: back to pending, claim columns and processing_started_at NULL.
ReleaseJob(rows, externID) ==
    { IF r.extern_id = externID
      THEN [r EXCEPT !.processing_status = StatusPending,
                     !.claimed_by = NULL,
                     !.claimed_at = NULL,
                     !.last_heartbeat = NULL,
                     !.processing_started_at = NULL]
      ELSE r : r \in rows }

\* GetJobsByNode: rows claimed by nodeID that are claimed or processing.
GetJobsByNode(rows, nodeID) ==
    {r \in rows : r.claimed_by = Some(nodeID)
                  /\ r.processing_status \in {StatusClaimed, StatusProcessing}}

\* An UPDATE without the guard on the current status.
MarkJobProcessingAnyState(rows, externID, t) ==
    { IF r.extern_id = externID
      THEN [r EXCEPT !.processing_status = StatusProcessing,
                     !.processing_started_at = Some(t)]
      ELSE r : r \in rows }

\* MarkJobProcessing: claimed -> processing, stamps processing_started_at.
MarkJobProcessing(rows, externID, t) ==
    { IF r.extern_id = externID /\ r.processing_status = StatusClaimed
      THEN [r EXCEPT !.processing_status = StatusProcessing,
                     !.processing_started_at = Some(t)]
      ELSE r : r \in rows }

\* CountJobsByStatus.
CountJobsByStatus(rows, status) ==
    Cardinality({r \in rows : r.processing_status = status})

(***************************************************************************)
(* internal/cluster: events on the wire.                                   *)
(***************************************************************************)
\* TodoSyncEvent / JobEvent as Go values.  Todo is "" and Completed nil where
\* the sender sets none.  Timestamp, TodoID and Status are written by the
\* senders and read by no handler; they are left out.
TodoSyncEvent(name, externID, todo, completed, nodeID) ==
    [Name |-> name, ExternID |-> externID, Todo |-> todo,
     Completed |-> completed, NodeID |-> nodeID]
JobEvent(name, externID, nodeID) ==
    [Name |-> name, ExternID |-> externID, Todo |-> "",
     Completed |-> NULL, NodeID |-> nodeID]

\* json.Marshal: `todo,omitempty` leaves out an empty string, `completed,omitempty`
\* a nil pointer (a pointer to false is written).
Marshal(event) ==
    [event EXCEPT !.Todo = IF @ = "" THEN NULL ELSE Some(@)]
\* json.Unmarshal: an absent key leaves the Go zero value.
Unmarshal(payload) ==
    [payload EXCEPT !.Todo = IF @ = NULL THEN "" ELSE @[1]]

\* The fields TodoSyncEvent and JobEvent share: what the event is about.
EventHeader(event) ==
    [Name |-> event.Name, ExternID |-> event.ExternID, NodeID |-> event.NodeID]

\* BroadcastTodoCreated / BroadcastTodoUpdated / BroadcastTodoDeleted: the event built from a row.
TodoCreatedEvent(todo, nodeID) ==
    TodoSyncEvent(EventTodoCreated, todo.extern_id, todo.todo, Some(todo.completed), nodeID)
TodoUpdatedEvent(todo, nodeID) ==
    TodoSyncEvent(EventTodoUpdated, todo.extern_id, todo.todo, Some(todo.completed), nodeID)
TodoDeletedEvent(externID, nodeID) ==
    TodoSyncEvent(EventTodoDeleted, externID, "", NULL, nodeID)

\* serf.UserEvent: the payloads are queued on the eventCh of every member, the
\* sender included.  eventCh is a buffered channel: Serf waits while it is full.
Broadcast(events) ==
    LET payloads == {Marshal(e) : e \in events}
    IN  /\ \A m \in members : Cardinality(inbox[m] \cup payloads) <= MaxInbox
        /\ inbox' = [m \in Nodes |->
                        IF m \in members THEN inbox[m] \cup payloads ELSE inbox[m]]

(***************************************************************************)
(* internal/cluster: the handlers of inbound user events, as functions of  *)
(* the local table (id = the next AUTOINCREMENT id, t = time.Now()).       *)
(***************************************************************************)
\* A created handler without the check for the node's own events.
HandleTodoCreatedNoEcho(nodeID, rows, id, t, payload) ==
    LET event == Unmarshal(payload)
    IN  IF GetTodoByExternID(rows, event.ExternID) # {} THEN rows
        ELSE CreateTodo(rows, id, event.ExternID, event.Todo, t).rows
\* handleTodoCreated
HandleTodoCreated(nodeID, rows, id, t, payload) ==
    LET event == Unmarshal(payload)
    IN  IF event.NodeID = nodeID THEN rows
        ELSE IF GetTodoByExternID(rows, event.ExternID) # {} THEN rows
        ELSE CreateTodo(rows, id, event.ExternID, event.Todo, t).rows

\* handleTodoUpdated
HandleTodoUpdated(nodeID, rows, id, t, payload) ==
    LET event == Unmarshal(payload)
        existing == GetTodoByExternID(rows, event.ExternID)
    IN  IF event.NodeID = nodeID THEN rows
        ELSE IF existing = {}
             THEN CreateTodo(rows, id, event.ExternID, event.Todo, t).rows
        ELSE LET ex == CHOOSE r \in existing : TRUE
                 todo == IF event.Todo # "" THEN Some(event.Todo) ELSE NULL
             IN  UpdateTodo(rows, ex.id, todo, event.Completed)

\* handleTodoDeleted
HandleTodoDeleted(nodeID, rows, id, t, payload) ==
    LET event == Unmarshal(payload)
        existing == GetTodoByExternID(rows, event.ExternID)
    IN  IF event.NodeID = nodeID THEN rows
        ELSE IF existing = {} THEN rows
        ELSE DeleteTodo(rows, (CHOOSE r \in existing : TRUE).id)

\* A job event handler that releases the job it names.
HandleJobEventReleasing(nodeID, rows, id, t, payload) ==
    LET event == Unmarshal(payload)
    IN  IF event.NodeID = nodeID THEN rows
        ELSE IF event.Name = EventJobReleased THEN ReleaseJob(rows, event.ExternID)
        ELSE rows
\* Handlers that copy the claimer a peer announces into the local row.
HandleJobEventRecording(nodeID, rows, id, t, payload) ==
    LET event == Unmarshal(payload)
    IN  IF event.NodeID = nodeID THEN rows
        ELSE IF event.Name = EventJobClaimed
             THEN ClaimUpdateRows(rows, GetTodoByExternID(rows, event.ExternID),
                                  event.NodeID, t)
        ELSE rows
\* handleJobClaimed .. handleJobReleased: unmarshal, drop echoes, log.
HandleJobEvent(nodeID, rows, id, t, payload) ==
    LET event == Unmarshal(payload)
    IN  IF event.NodeID = nodeID THEN rows ELSE rows

\* handleUserEvent: the outer check compares the event name with the node
\* name; then dispatch on the event name.
HandleUserEvent(nodeID, rows, id, t, payload) ==
    IF payload.Name = nodeID THEN rows
    ELSE CASE payload.Name = EventTodoCreated -> HandleTodoCreated(nodeID, rows, id, t, payload)
           [] payload.Name = EventTodoUpdated -> HandleTodoUpdated(nodeID, rows, id, t, payload)
           [] payload.Name = EventTodoDeleted -> HandleTodoDeleted(nodeID, rows, id, t, payload)
           [] payload.Name \in JobEventNames -> HandleJobEvent(nodeID, rows, id, t, payload)
           [] OTHER -> rows

(***************************************************************************)
(* State shared by the actions.                                            *)
(***************************************************************************)
NoTx == [open |-> FALSE, db |-> "", sel |-> NULL, stale |-> FALSE]
IdleWorker == [pc |-> "idle", todo |-> NULL, hb |-> "off", hbID |-> NULL]

\* The cluster layer of one node: the ready flag and readyCh, the position of
\* Start (its join loop) and of the requestFullSync goroutine, and whether
\* the member event of the node's own join waits in the event channel.
StartedProc ==
    [ready |-> TRUE, closed |-> 1, start |-> "done", attempt |-> 0,
     lastErr |-> FALSE, joined |-> FALSE, selfJoin |-> FALSE,
     sync |-> "done", expected |-> 0]
\* cluster.New: ready false, readyCh open; serf.Create queued the own join.
NewProc ==
    [ready |-> FALSE, closed |-> 0, start |-> "new", attempt |-> 0,
     lastErr |-> FALSE, joined |-> FALSE, selfJoin |-> TRUE,
     sync |-> "none", expected |-> 0]

\* Stop's state of a node as cluster.New and worker.New leave it.  Cluster:
\* the stopped flag, how often the shutdown channel was closed and serf.Leave
\* and serf.Shutdown were called, the calls returned and whether the last
\* returned an error, and whether handleEvents runs.  Worker: the stopped
\* flag, how often shutdown was closed and the tickers were stopped, the
\* calls returned, and of the processJob that watches shutdown the slices it
\* has slept and whether it returned from its shutdown case.
NotStopped ==
    [cluster |-> [stopped |-> FALSE, shutdown |-> 0, left |-> 0, down |-> 0,
                  stops |-> 0, stopErr |-> FALSE, loop |-> "running"],
     worker |-> [stopped |-> FALSE, shutdown |-> 0, tickers |-> 0, stops |-> 0,
                 elapsed |-> 0, interrupted |-> FALSE]]

\* Every node started and ready, no sync under way; stop holds Stop's state
\* of the nodes on which a Stop was called, the others are NotStopped.
Running ==
    [proc |-> [n \in Nodes |-> StartedProc], seeds |-> "none",
     asked |-> {}, acks |-> {}, stream |-> [n \in Nodes |-> {}],
     stop |-> [n \in {} |-> NotStopped]]

\* A committed write of newRows to store d: open read transactions on d see
\* their snapshot go stale; `closer` is the caller whose transaction ends.
TxAfter(d, newRows, closer) ==
    [k \in Nodes |->
        IF k = closer THEN NoTx
        ELSE IF claimTx[k].open /\ claimTx[k].db = d /\ newRows # store[d]
             THEN [claimTx[k] EXCEPT !.stale = TRUE]
        ELSE claimTx[k]]

\* A claim is held until its row is released (pending again) or deleted.
HoldersAfter(d, newRows, add) ==
    [holders EXCEPT ![d] =
        {h \in @ \cup add : \E r \in newRows :
              r.id = h[1] /\ r.processing_status # StatusPending}]

Commit(d, newRows) ==
    /\ store' = [store EXCEPT ![d] = newRows]
    /\ claimTx' = TxAfter(d, newRows, "")
    /\ holders' = HoldersAfter(d, newRows, {})

\* The AUTOINCREMENT counter after a statement that may have inserted row id.
NextIDAfter(n, newRows) ==
    [nextID EXCEPT ![n] = IF \E r \in newRows : r.id = @ THEN @ + 1 ELSE @]

Init ==
    /\ store = [n \in Nodes |-> {}]
    /\ nextID = [n \in Nodes |-> 1]
    /\ now = 1
    /\ inbox = [n \in Nodes |-> {}]
    /\ worker = [n \in Nodes |-> IdleWorker]
    /\ claimTx = [n \in Nodes |-> NoTx]
    /\ holders = [n \in Nodes |-> {}]
    /\ members = Nodes
    /\ handled = NULL
    /\ lookup = NULL
    /\ boot = Running

\* Time passes.
Tick ==
    /\ now < MaxTime
    /\ now' = now + 1
    /\ UNCHANGED <<store, nextID, inbox, worker, claimTx, holders, members>>
    /\ handled' = NULL
    /\ UNCHANGED lookup
    /\ UNCHANGED boot

(***************************************************************************)
(* internal/api: the HTTP handlers.                                        *)
(***************************************************************************)
\* Server.createTodo: CreateTodo, then BroadcastTodoCreated of the new row.
createTodo(n, externID, todo) ==
    LET res == CreateTodo(store[n], nextID[n], externID, todo, now)
    IN  /\ nextID[n] <= MaxID
        /\ ~res.err
        /\ Commit(n, res.rows)
        /\ nextID' = NextIDAfter(n, res.rows)
        /\ Broadcast({TodoCreatedEvent(NewTodo(nextID[n], externID, todo, now), n)})
        /\ UNCHANGED <<now, worker, members>>
        /\ handled' = NULL
        /\ UNCHANGED lookup
        /\ UNCHANGED boot

\* Server.updateTodo: UpdateTodo; 404 when the id is absent, else
\* BroadcastTodoUpdated of the row as it now reads.
updateTodo(n, id, todo, completed) ==
    LET rows == UpdateTodo(store[n], id, todo, completed)
    IN  /\ GetTodo(store[n], id) # {}
        /\ Commit(n, rows)
        /\ Broadcast({TodoUpdatedEvent(r, n) : r \in GetTodo(rows, id)})
        /\ UNCHANGED <<nextID, now, worker, members>>
        /\ handled' = NULL
        /\ UNCHANGED lookup
        /\ UNCHANGED boot

\* Server.deleteTodo: GetTodo (404 when absent), DeleteTodo, BroadcastTodoDeleted.
deleteTodo(n, id) ==
    /\ GetTodo(store[n], id) # {}
    /\ Commit(n, DeleteTodo(store[n], id))
    /\ Broadcast({TodoDeletedEvent(r.extern_id, n) : r \in GetTodo(store[n], id)})
    /\ UNCHANGED <<nextID, now, worker, members>>
    /\ handled' = NULL
    /\ UNCHANGED lookup
    /\ UNCHANGED boot

(***************************************************************************)
(* internal/cluster: the event loop.                                       *)
(***************************************************************************)
\* handleEvents takes one user event off eventCh and runs handleUserEvent.
\* Serf may hand the same event over again later (keep).
Deliver(n, payload, keep) ==
    LET rows == HandleUserEvent(n, store[n], nextID[n], now, payload)
    IN  /\ payload \in inbox[n]
        /\ nextID[n] <= MaxID \/ ~\E r \in rows : r.id = nextID[n]
        /\ Commit(n, rows)
        /\ nextID' = NextIDAfter(n, rows)
        /\ inbox' = [inbox EXCEPT ![n] = IF keep THEN @ ELSE @ \ {payload}]
        /\ handled' = Some([node |-> n, event |-> EventHeader(Unmarshal(payload))])
        /\ UNCHANGED lookup
        /\ UNCHANGED boot
        /\ UNCHANGED <<now, worker, members>>

\* The extern_id the replication runs are driven with.
ClusterIDs == {"x"}

\* The events the Broadcast functions can put on the wire, of every origin.
WireEvents ==
    {TodoSyncEvent(name, x, t, Some(c), m) :
        name \in {EventTodoCreated, EventTodoUpdated},
        x \in ClusterIDs, t \in Todos, c \in BOOLEAN, m \in Nodes}
    \cup {TodoDeletedEvent(x, m) : x \in ClusterIDs, m \in Nodes}
    \cup {JobEvent(name, x, m) : name \in JobEventNames, x \in ClusterIDs, m \in Nodes}

\* Serf hands node n an event of the wire (of a peer, or an echo or replay
\* of its own) and handleUserEvent runs.
Receive(n, event) ==
    LET rows == HandleUserEvent(n, store[n], nextID[n], now, Marshal(event))
    IN  /\ event \in WireEvents
        /\ nextID[n] <= MaxID \/ ~\E r \in rows : r.id = nextID[n]
        /\ Commit(n, rows)
        /\ nextID' = NextIDAfter(n, rows)
        /\ handled' = Some([node |-> n, event |-> EventHeader(event)])
        /\ UNCHANGED lookup
        /\ UNCHANGED boot
        /\ UNCHANGED <<now, inbox, worker, members>>

(***************************************************************************)
(* internal/database: ClaimNextPendingTodo, one step per statement.        *)
(***************************************************************************)
\* Begin and the SELECT by caller c on store d: fixes the snapshot and the row.
\* No pending row returns nil, nil and changes nothing.
ClaimSelect(c, d) ==
    /\ ~claimTx[c].open
    /\ \E r \in ClaimCandidates(store[d]) :
          claimTx' = [claimTx EXCEPT ![c] =
              [open |-> TRUE, db |-> d, stale |-> FALSE,
               sel |-> Some([id |-> r.id, extern_id |-> r.extern_id])]]

\* The outcome of the UPDATE and COMMIT of caller c's transaction.
ClaimResult(c) ==
    LET tx == claimTx[c]
    IN  ClaimUpdate(store[tx.db], tx.stale, tx.sel[1].id, c, now)
\* ClaimNextPendingTodo returned a row to c (else nil, and the rollback).
ClaimReturned(c) ==
    LET res == ClaimResult(c)
    IN  ~res.err /\ res.affected # {}
\* The store, the transactions and the claim history after c's call returns.
ClaimFinish(c) ==
    LET tx == claimTx[c]
        res == ClaimResult(c)
    IN  /\ tx.open
        /\ IF ClaimReturned(c)
           THEN /\ store' = [store EXCEPT ![tx.db] = res.rows]
                /\ claimTx' = TxAfter(tx.db, res.rows, c)
                /\ holders' = HoldersAfter(tx.db, res.rows, {<<tx.sel[1].id, c>>})
           ELSE /\ claimTx' = [claimTx EXCEPT ![c] = NoTx]
                /\ UNCHANGED <<store, holders>>

(***************************************************************************)
(* internal/worker.                                                        *)
(***************************************************************************)
\* processJob sleeps 5 to 10 s in slices; both of its returns are nil.
processJob == NULL

\* ReleaseJob for each of the listed rows, as the loops of checkStaleJobs do.
ReleaseJobs(rows, jobs) ==
    UNION { IF \E j \in jobs : j.extern_id = r.extern_id
            THEN ReleaseJob({r}, r.extern_id) ELSE {r} : r \in rows }

\* A dispatch tick that calls tryClaimAndProcess whatever the worker is at.
WorkerDispatchBusy(n) ==
    /\ ClaimSelect(n, n)
    /\ worker' = [worker EXCEPT ![n].pc = "claiming"]
    /\ UNCHANGED <<store, nextID, now, inbox, holders, members>>
    /\ handled' = NULL
    /\ UNCHANGED lookup
    /\ UNCHANGED boot

\* workerLoop, dispatch tick with processing unset: tryClaimAndProcess enters
\* ClaimNextPendingTodo.
WorkerDispatch(n) ==
    /\ worker[n].pc = "idle"
    /\ ClaimSelect(n, n)
    /\ worker' = [worker EXCEPT ![n].pc = "claiming"]
    /\ UNCHANGED <<store, nextID, now, inbox, holders, members>>
    /\ handled' = NULL
    /\ UNCHANGED lookup
    /\ UNCHANGED boot

\* ClaimNextPendingTodo returns: nil or an error ends the tick; a row sets
\* processing and is announced with BroadcastJobClaimed.
WorkerClaim(n) ==
    /\ worker[n].pc = "claiming"
    /\ ClaimFinish(n)
    /\ IF ClaimReturned(n)
       THEN /\ worker' = [worker EXCEPT ![n].pc = "claimed",
                                        ![n].todo = claimTx[n].sel]
            /\ Broadcast({JobEvent(EventJobClaimed, claimTx[n].sel[1].extern_id, n)})
       ELSE /\ worker' = [worker EXCEPT ![n].pc = "idle"]
            /\ UNCHANGED inbox
    /\ UNCHANGED <<nextID, now, members>>
    /\ handled' = NULL
    /\ UNCHANGED lookup
    /\ UNCHANGED boot

\* MarkJobProcessing, BroadcastJobStarted, and the heartbeat goroutine starts.
WorkerStart(n) ==
    LET todo == worker[n].todo[1]
    IN  /\ worker[n].pc = "claimed"
        /\ Commit(n, MarkJobProcessing(store[n], todo.extern_id, now))
        /\ Broadcast({JobEvent(EventJobStarted, todo.extern_id, n)})
        /\ worker' = [worker EXCEPT ![n].pc = "processing", ![n].hb = "on",
                                    ![n].hbID = Some(todo.extern_id)]
        /\ UNCHANGED <<nextID, now, members>>
        /\ handled' = NULL
        /\ UNCHANGED lookup
        /\ UNCHANGED boot

\* heartbeatLoop, ticker case: SendHeartbeat; an error ends the goroutine, else
\* BroadcastJobHeartbeat.  With done closed the select may still take a tick
\* that is due; the next select then takes done.
HeartbeatTick(n) ==
    LET externID == worker[n].hbID[1]
    IN  /\ worker[n].hb \in {"on", "closing"}
        /\ IF HeartbeatMatch(store[n], externID, n) = {}
           THEN /\ worker' = [worker EXCEPT ![n].hb = "off", ![n].hbID = NULL]
                /\ UNCHANGED <<store, claimTx, holders, inbox>>
           ELSE /\ Commit(n, SendHeartbeat(store[n], externID, n, now))
                /\ Broadcast({JobEvent(EventJobHeartbeat, externID, n)})
                /\ worker' = IF worker[n].hb = "closing"
                             THEN [worker EXCEPT ![n].hb = "off", ![n].hbID = NULL]
                             ELSE worker
        /\ UNCHANGED <<nextID, now, members>>
        /\ handled' = NULL
        /\ UNCHANGED lookup
        /\ UNCHANGED boot

\* A heartbeatLoop whose select has no done case.
HeartbeatExitIgnored(n) ==
    /\ worker[n].hb = "closing"
    /\ UNCHANGED worker
    /\ UNCHANGED <<store, nextID, now, inbox, claimTx, holders, members>>
    /\ handled' = NULL
    /\ UNCHANGED lookup
    /\ UNCHANGED boot

\* heartbeatLoop, done case.
HeartbeatExit(n) ==
    /\ worker[n].hb = "closing"
    /\ worker' = [worker EXCEPT ![n].hb = "off", ![n].hbID = NULL]
    /\ UNCHANGED <<store, nextID, now, inbox, claimTx, holders, members>>
    /\ handled' = NULL
    /\ UNCHANGED lookup
    /\ UNCHANGED boot

\* processJob returns and heartbeatDone is closed.
WorkerProcessed(n) ==
    /\ worker[n].pc = "processing"
    /\ worker' = [worker EXCEPT ![n].pc = "finishing",
                                ![n].hb = CASE @ = "on" -> "closing"
                                            [] @ = "sent" -> "sentClosing"
                                            [] OTHER -> @]
    /\ UNCHANGED <<store, nextID, now, inbox, claimTx, holders, members>>
    /\ handled' = NULL
    /\ UNCHANGED lookup
    /\ UNCHANGED boot

\* Step 6 with err == nil: UpdateTodo(todo.ID, nil, &true).  With an error the
\* job goes to failed and BroadcastJobFailed ends the call.
WorkerMarkDone(n) ==
    LET todo == worker[n].todo[1]
    IN  /\ worker[n].pc = "finishing"
        /\ IF processJob = NULL
           THEN /\ Commit(n, UpdateTodo(store[n], todo.id, NULL, Some(TRUE)))
                /\ worker' = [worker EXCEPT ![n].pc = "finalising"]
                /\ UNCHANGED inbox
           ELSE /\ Commit(n, UpdateJobStatus(store[n], todo.extern_id, StatusFailed, now))
                /\ Broadcast({JobEvent(EventJobFailed, todo.extern_id, n)})
                /\ worker' = [worker EXCEPT ![n].pc = "idle", ![n].todo = NULL]
        /\ UNCHANGED <<nextID, now, members>>
        /\ handled' = NULL
        /\ UNCHANGED lookup
        /\ UNCHANGED boot

\* UpdateJobStatus(completed), BroadcastJobCompleted, processing is unset.
WorkerFinalise(n) ==
    LET todo == worker[n].todo[1]
    IN  /\ worker[n].pc = "finalising"
        /\ Commit(n, UpdateJobStatus(store[n], todo.extern_id, StatusCompleted, now))
        /\ Broadcast({JobEvent(EventJobCompleted, todo.extern_id, n)})
        /\ worker' = [worker EXCEPT ![n].pc = "idle", ![n].todo = NULL]
        /\ UNCHANGED <<nextID, now, members>>
        /\ handled' = NULL
        /\ UNCHANGED lookup
        /\ UNCHANGED boot

\* workerLoop, stale tick: checkStaleJobs releases every stale job and
\* announces each with BroadcastJobReleased.
checkStaleJobs(n) ==
    LET staleJobs == GetStaleJobs(store[n], staleJobTimeout, now)
    IN  /\ worker[n].pc = "idle"
        /\ staleJobs # {}
        /\ Commit(n, ReleaseJobs(store[n], staleJobs))
        /\ Broadcast({JobEvent(EventJobReleased, j.extern_id, n) : j \in staleJobs})
        /\ UNCHANGED <<nextID, now, worker, members>>
        /\ handled' = NULL
        /\ UNCHANGED lookup
        /\ UNCHANGED boot

\* The process of node n is killed and started again on the same database
\* file: goroutines, the open transaction and the queued events are gone.
Restart(n) ==
    /\ worker[n] # IdleWorker \/ inbox[n] # {}
    /\ worker' = [worker EXCEPT ![n] = IdleWorker]
    /\ claimTx' = [claimTx EXCEPT ![n] = NoTx]
    /\ inbox' = [inbox EXCEPT ![n] = {}]
    /\ UNCHANGED <<store, nextID, now, holders, members>>
    /\ handled' = NULL
    /\ UNCHANGED lookup
    /\ UNCHANGED boot

(***************************************************************************)
(* The cluster: every node runs the HTTP handlers, the event loop and the   *)
(* worker.                                                                 *)
(***************************************************************************)
\* Arguments of the HTTP requests.
OptTodo == {NULL} \cup {Some(t) : t \in Todos}
OptBool == {NULL, Some(TRUE), Some(FALSE)}

\* The cluster run: no process is killed and the run is short against the
\* clock unit; clients send their writes for one extern_id to any node.

Next ==
    \/ \E n \in Nodes, x \in ClusterIDs, t \in Todos : createTodo(n, x, t)
    \/ \E n \in Nodes, id \in 1..MaxID, t \in OptTodo, c \in OptBool : updateTodo(n, id, t, c)
    \/ \E n \in Nodes, id \in 1..MaxID : deleteTodo(n, id)
    \/ \E n \in Nodes : \E p \in inbox[n], keep \in BOOLEAN : Deliver(n, p, keep)
    \/ \E n \in Nodes : WorkerDispatch(n)
    \/ \E n \in Nodes : WorkerClaim(n)
    \/ \E n \in Nodes : WorkerStart(n)
    \/ \E n \in Nodes : HeartbeatTick(n)
    \/ \E n \in Nodes : HeartbeatExit(n)
    \/ \E n \in Nodes : WorkerProcessed(n)
    \/ \E n \in Nodes : WorkerMarkDone(n)
    \/ \E n \in Nodes : WorkerFinalise(n)

Spec == Init /\ [][Next]_vars

(***************************************************************************)
(* One node in full: its HTTP handlers, event loop, worker, stale sweep,   *)
(* the clock and restarts.  The gossip layer is the environment: what the  *)
(* node broadcasts leaves the model, and any event of the wire may arrive. *)
(***************************************************************************)
LocalNode == "n1"

InitStore ==
    /\ store = [n \in Nodes |-> {}]
    /\ nextID = [n \in Nodes |-> 1]
    /\ now = 1
    /\ inbox = [n \in Nodes |-> {}]
    /\ worker = [n \in Nodes |-> IdleWorker]
    /\ claimTx = [n \in Nodes |-> NoTx]
    /\ holders = [n \in Nodes |-> {}]
    /\ members = {}
    /\ handled = NULL
    /\ lookup = NULL
    /\ boot = Running

NextStore ==
    \/ Tick
    \/ \E x \in ClusterIDs, t \in Todos : createTodo(LocalNode, x, t)
    \/ \E id \in 1..MaxID, t \in OptTodo, c \in OptBool : updateTodo(LocalNode, id, t, c)
    \/ \E id \in 1..MaxID : deleteTodo(LocalNode, id)
    \/ \E e \in WireEvents : Receive(LocalNode, e)
    \/ WorkerDispatch(LocalNode)
    \/ WorkerClaim(LocalNode)
    \/ WorkerStart(LocalNode)
    \/ HeartbeatTick(LocalNode)
    \/ HeartbeatExit(LocalNode)
    \/ WorkerProcessed(LocalNode)
    \/ WorkerMarkDone(LocalNode)
    \/ WorkerFinalise(LocalNode)
    \/ checkStaleJobs(LocalNode)
    \/ Restart(LocalNode)

SpecStore == InitStore /\ [][NextStore]_vars

(***************************************************************************)
(* ClaimNextPendingTodo under concurrent callers: every node name calls it  *)
(* on the one database file of LocalNode, between creates and releases.    *)
(***************************************************************************)
\* Caller c enters ClaimNextPendingTodo(c): Begin and the SELECT.
ClaimBegin(c) ==
    /\ ClaimSelect(c, LocalNode)
    /\ UNCHANGED <<store, nextID, now, inbox, worker, holders, members>>
    /\ handled' = NULL
    /\ UNCHANGED lookup
    /\ UNCHANGED boot

\* Caller c's UPDATE and COMMIT, and the return.
ClaimEnd(c) ==
    /\ ClaimFinish(c)
    /\ UNCHANGED <<nextID, now, inbox, worker, members>>
    /\ handled' = NULL
    /\ UNCHANGED lookup
    /\ UNCHANGED boot

\* ReleaseJob(externID) on a row that is claimed.
Release(externID) ==
    /\ \E r \in store[LocalNode] :
          r.extern_id = externID /\ r.processing_status = StatusClaimed
    /\ Commit(LocalNode, ReleaseJob(store[LocalNode], externID))
    /\ UNCHANGED <<nextID, now, inbox, worker, members>>
    /\ handled' = NULL
    /\ UNCHANGED lookup
    /\ UNCHANGED boot

NextClaim ==
    \/ Tick
    \/ \E x \in ExternIDs, t \in Todos : createTodo(LocalNode, x, t)
    \/ \E c \in Nodes : ClaimBegin(c)
    \/ \E c \in Nodes : ClaimEnd(c)
    \/ \E x \in ExternIDs : Release(x)

SpecClaim == InitStore /\ [][NextClaim]_vars

(***************************************************************************)
(* handleTodoCreated / handleTodoUpdated statement by statement, against   *)
(* the HTTP handlers that run in other goroutines on the same database.    *)
(***************************************************************************)
\* The created and updated events of peers, for every extern_id.
InsertEvents ==
    {TodoSyncEvent(name, x, t, Some(FALSE), m) :
        name \in {EventTodoCreated, EventTodoUpdated},
        x \in ExternIDs, t \in Todos, m \in Nodes \ {LocalNode}}

\* Unmarshal, the echo check and GetTodoByExternID, which finds no row.
HandlerLookup(event) ==
    /\ lookup = NULL
    /\ boot = Running
    /\ event \in InsertEvents
    /\ event.NodeID # LocalNode
    /\ GetTodoByExternID(store[LocalNode], event.ExternID) = {}
    /\ lookup' = Some(event)
    /\ UNCHANGED boot
    /\ handled' = NULL
    /\ UNCHANGED <<store, nextID, now, inbox, worker, claimTx, holders, members>>

\* The CreateTodo that follows; its error is logged and the handler returns.
HandlerInsert ==
    /\ lookup # NULL
    /\ LET event == lookup[1]
           res == CreateTodo(store[LocalNode], nextID[LocalNode],
                             event.ExternID, event.Todo, now)
       IN  /\ nextID[LocalNode] <= MaxID \/ res.err
           /\ Commit(LocalNode, res.rows)
           /\ nextID' = NextIDAfter(LocalNode, res.rows)
           /\ handled' = Some([node |-> LocalNode, event |-> EventHeader(event)])
    /\ lookup' = NULL
    /\ UNCHANGED boot
    /\ UNCHANGED <<now, inbox, worker, members>>

NextInsert ==
    \/ Tick
    \/ \E x \in ExternIDs, t \in Todos : createTodo(LocalNode, x, t)
    \/ \E id \in 1..MaxID : deleteTodo(LocalNode, id)
    \/ \E e \in InsertEvents : HandlerLookup(e)
    \/ HandlerInsert

SpecInsert == InitStore /\ [][NextInsert]_vars

(***************************************************************************)
(* internal/cluster: Start, the own join event, requestFullSync and the    *)
(* full-state query.  Seed runs alone; Joiner starts with it as its seed,  *)
(* with an unreachable seed, or with none.                                 *)
(***************************************************************************)
Seed == "n1"
Joiner == "n2"
maxRetries == 3

\* A markReady that toggles the flag.
markReadyFlip(p) ==
    [p EXCEPT !.ready = ~p.ready, !.closed = @ + 1]
\* markReady on the cluster layer p.
markReady(p) ==
    IF ~p.ready THEN [p EXCEPT !.ready = TRUE, !.closed = @ + 1] ELSE p

\* The tables Seed can hold when Joiner starts: none, one or two items.
SeedStores ==
    {{}} \cup {{NewTodo(1, x, t, 1)} : x \in ExternIDs, t \in Todos}
         \cup {{NewTodo(1, "x", t, 1), NewTodo(2, "y", u, 1)} : t, u \in Todos}

InitStart ==
    /\ \E rows \in SeedStores :
          /\ store = [n \in Nodes |-> IF n = Seed THEN rows ELSE {}]
          /\ nextID = [n \in Nodes |-> IF n = Seed THEN Cardinality(rows) + 1 ELSE 1]
    /\ now = 1
    /\ inbox = [n \in Nodes |-> {}]
    /\ worker = [n \in Nodes |-> IdleWorker]
    /\ claimTx = [n \in Nodes |-> NoTx]
    /\ holders = [n \in Nodes |-> {}]
    /\ members = {Seed}
    /\ handled = NULL
    /\ lookup = NULL
    /\ \E seeds \in {"none", "up", "down"} :
          boot = [Running EXCEPT !.proc[Joiner] = NewProc, !.seeds = seeds]

\* The store and the gossip layer are left alone.
StoreUnchanged ==
    UNCHANGED <<store, nextID, now, worker, claimTx, holders, handled, lookup>>

\* The nodes the query of Joiner reaches: Joiner itself, and the members
\* once Joiner is one of them.
QueryTargets ==
    {Joiner} \cup (IF Joiner \in members THEN members ELSE {})

\* Something is under way that takes milliseconds: an event, an
\* acknowledgement or the query in flight, a responder streaming, a member
\* event to handle, a goroutine that can run.  Timers of seconds run out
\* only when nothing of this is left.
Quiet ==
    LET j == boot.proc[Joiner]
    IN  /\ \A n \in Nodes : inbox[n] = {} /\ boot.stream[n] = {}
        /\ boot.acks = {}
        /\ j.start # "new"
        /\ ~j.selfJoin
        /\ ~(j.start = "join" /\ boot.seeds = "up")
        /\ ~(j.start = "wait" /\ j.closed > 0)
        /\ j.sync = "query" => QueryTargets \subseteq boot.asked

\* Start up to the join loop: go handleEvents(); without seeds markReady.
StartBegin(n) ==
    LET p == boot.proc[n]
    IN  /\ p.start = "new"
        /\ boot' = [boot EXCEPT !.proc[n] =
                       IF boot.seeds = "none"
                       THEN [markReady(p) EXCEPT !.start = "done"]
                       ELSE [p EXCEPT !.start = "join"]]
        /\ StoreUnchanged /\ UNCHANGED <<inbox, members>>

\* One pass of the retry loop: serf.Join contacts the seed or returns an
\* error; after the last failed attempt markReady and return.
JoinAttempt(n) ==
    LET p == boot.proc[n]
    IN  /\ p.start = "join"
        /\ IF boot.seeds = "up"
           THEN /\ members' = members \cup {n}
                /\ boot' = [boot EXCEPT !.proc[n] =
                               [p EXCEPT !.start = "wait", !.joined = TRUE]]
           ELSE /\ UNCHANGED members
                /\ boot' = [boot EXCEPT !.proc[n] =
                       IF p.attempt + 1 = maxRetries
                       THEN [markReady(p) EXCEPT !.start = "done", !.lastErr = TRUE,
                                                 !.attempt = p.attempt + 1]
                       ELSE [p EXCEPT !.start = "backoff", !.lastErr = TRUE,
                                      !.attempt = p.attempt + 1]]
        /\ StoreUnchanged /\ UNCHANGED inbox

\* time.Sleep(backoff) before the next attempt returns.
BackoffDone(n) ==
    /\ boot.proc[n].start = "backoff"
    /\ Quiet
    /\ boot' = [boot EXCEPT !.proc[n].start = "join"]
    /\ StoreUnchanged /\ UNCHANGED <<inbox, members>>

\* A select without the timeout case.
StartWaitNoTimeout(n) ==
    LET p == boot.proc[n]
    IN  /\ p.start = "wait"
        /\ p.closed > 0
        /\ boot' = [boot EXCEPT !.proc[n] = [markReady(p) EXCEPT !.start = "done"]]
        /\ StoreUnchanged /\ UNCHANGED <<inbox, members>>
\* The select after a successful join: readyCh is closed, or the 30 s
\* timeout runs out and Start calls markReady itself.
StartWait(n) ==
    LET p == boot.proc[n]
    IN  /\ p.start = "wait"
        /\ p.closed > 0 \/ Quiet
        /\ boot' = [boot EXCEPT !.proc[n] = [markReady(p) EXCEPT !.start = "done"]]
        /\ StoreUnchanged /\ UNCHANGED <<inbox, members>>

\* handleMemberEvent, EventMemberJoin of the node itself: go requestFullSync(),
\* which sends the sync:full-state query (deadline 10 s).
HandleSelfJoin(n) ==
    LET p == boot.proc[n]
    IN  /\ p.start # "new"
        /\ p.selfJoin
        /\ boot' = [boot EXCEPT !.proc[n] = [p EXCEPT !.selfJoin = FALSE, !.sync = "query"],
                                !.asked = {}]
        /\ StoreUnchanged /\ UNCHANGED <<inbox, members>>

\* A query handler that responds with the count and broadcasts nothing.
QueryDeliverAckOnly(m) ==
    /\ boot.proc[Joiner].sync = "query"
    /\ m \in QueryTargets \ boot.asked
    /\ boot' = [boot EXCEPT !.asked = @ \cup {m},
                            !.acks = @ \cup {[from |-> m, count |-> CountTodos(store[m])]}]
    /\ StoreUnchanged /\ UNCHANGED <<inbox, members>>
\* A query handler that starts the broadcasts without having responded.
QueryDeliverUnanswered(m) ==
    /\ boot.proc[Joiner].sync = "query"
    /\ m \in QueryTargets \ boot.asked
    /\ boot' = [boot EXCEPT !.asked = @ \cup {m},
                            !.stream[m] = store[m]]
    /\ StoreUnchanged /\ UNCHANGED <<inbox, members>>
\* handleFullStateQuery at m (the sender handles its query too; a peer gets
\* it once the sender has joined): ListTodos, Respond with the count, and a
\* goroutine that broadcasts every listed row as a created event.
QueryDeliver(m) ==
    /\ boot.proc[Joiner].sync = "query"
    /\ m \in QueryTargets \ boot.asked
    /\ boot' = [boot EXCEPT !.asked = @ \cup {m},
                            !.acks = @ \cup {[from |-> m, count |-> CountTodos(store[m])]},
                            !.stream[m] = store[m]]
    /\ StoreUnchanged /\ UNCHANGED <<inbox, members>>

\* requestFullSync reads one response from ResponseCh and adds its count;
\* a response after the deadline is dropped.
AckDeliver(ack) ==
    /\ ack \in boot.acks
    /\ boot' = [boot EXCEPT !.acks = @ \ {ack},
                            !.proc[Joiner].expected =
                                IF boot.proc[Joiner].sync = "query"
                                THEN @ + ack.count ELSE @]
    /\ StoreUnchanged /\ UNCHANGED <<inbox, members>>

\* The responder's goroutine broadcasts the next listed row.
StreamStep(m) ==
    \E r \in boot.stream[m] :
        /\ Broadcast({TodoSyncEvent(EventTodoCreated, r.extern_id, r.todo,
                                    Some(r.completed), m)})
        /\ boot' = [boot EXCEPT !.stream[m] = @ \ {r}]
        /\ StoreUnchanged /\ UNCHANGED members

\* ResponseCh closes at the deadline: with nothing expected requestFullSync
\* returns and its deferred markReady runs, else it sleeps.
QueryDeadline(n) ==
    LET p == boot.proc[n]
    IN  /\ p.sync = "query"
        /\ Quiet
        /\ boot' = [boot EXCEPT !.proc[n] =
                       IF p.expected > 0
                       THEN [p EXCEPT !.sync = "sleep"]
                       ELSE [markReady(p) EXCEPT !.sync = "done"]]
        /\ StoreUnchanged /\ UNCHANGED <<inbox, members>>

\* The sleep of min(30 s, expected/10 + 5 s) ends: CountTodos, markReady.
SleepDone(n) ==
    LET p == boot.proc[n]
    IN  /\ p.sync = "sleep"
        /\ Quiet
        /\ boot' = [boot EXCEPT !.proc[n] = [markReady(p) EXCEPT !.sync = "done"]]
        /\ StoreUnchanged /\ UNCHANGED <<inbox, members>>

\* The gossip layer loses a queued event, a response, or the query to m,
\* or the node's own join event never reaches handleEvents.
Lose ==
    /\ \/ /\ boot.proc[Joiner].selfJoin
          /\ boot' = [boot EXCEPT !.proc[Joiner].selfJoin = FALSE]
          /\ UNCHANGED inbox
       \/ \E n \in Nodes : \E e \in inbox[n] :
             /\ inbox' = [inbox EXCEPT ![n] = @ \ {e}]
             /\ UNCHANGED boot
       \/ \E ack \in boot.acks :
             /\ boot' = [boot EXCEPT !.acks = @ \ {ack}]
             /\ UNCHANGED inbox
       \/ \E m \in QueryTargets \ (boot.asked \cup {Joiner}) :
             /\ boot.proc[Joiner].sync = "query"
             /\ boot' = [boot EXCEPT !.asked = @ \cup {m}]
             /\ UNCHANGED inbox
    /\ StoreUnchanged /\ UNCHANGED members

\* The steps of the start-up without loss.
StartSteps ==
    \/ StartBegin(Joiner)
    \/ JoinAttempt(Joiner)
    \/ BackoffDone(Joiner)
    \/ StartWait(Joiner)
    \/ HandleSelfJoin(Joiner)
    \/ \E m \in Nodes : QueryDeliver(m)
    \/ \E ack \in boot.acks : AckDeliver(ack)
    \/ \E m \in Nodes : StreamStep(m)
    \/ \E n \in Nodes : \E e \in inbox[n] : Deliver(n, e, FALSE)
    \/ QueryDeadline(Joiner)
    \/ SleepDone(Joiner)

NextSync == StartSteps
NextStart == StartSteps \/ Lose

\* Goroutines that can run do run, and timers run out.
SpecSync == InitStart /\ [][NextSync]_vars /\ WF_vars(StartSteps)
SpecStart == InitStart /\ [][NextStart]_vars /\ WF_vars(StartSteps)

(***************************************************************************)
(* Properties.                                                             *)
(***************************************************************************)
\* The observable items of a table: (extern_id, payload, done).
Items(rows) == {<<r.extern_id, r.todo, r.completed>> : r \in rows}

\* handleUserEvent applied to a table, and the AUTOINCREMENT id after it.
ApplyEvent(n, rows, id, event) == HandleUserEvent(n, rows, id, now, Marshal(event))
IDAfter(rows, id) == IF \E r \in rows : r.id = id THEN id + 1 ELSE id
ApplyTwo(n, rows, id, e1, e2) ==
    LET mid == ApplyEvent(n, rows, id, e1)
    IN  ApplyEvent(n, mid, IDAfter(mid, id), e2)

\* The nodes whose store holds externID as CLAIMED or PROCESSING.
Claimers(externID) ==
    {n \in Nodes : \E r \in store[n] :
        /\ r.extern_id = externID
        /\ r.processing_status \in {StatusClaimed, StatusProcessing}}

\* C1: across the cluster at most one node holds a given extern_id in
\* proc_state CLAIMED or PROCESSING at any time.
C1_OneProcessorPerItem ==
    \A x \in ExternIDs : Cardinality(Claimers(x)) <= 1

\* C2: concurrent ClaimNextPendingTodo calls on one store return a pending
\* row to at most one caller until the row is released.
C2_ClaimReturnedOnce ==
    \A d \in Nodes : \A h1, h2 \in holders[d] : h1[1] = h2[1] => h1 = h2

\* Two callers selected the same row in overlapping transactions; one was
\* returned the row and the other has not finished its call.
C2_RacingClaims ==
    \E c1, c2 \in Nodes :
        /\ c1 # c2
        /\ claimTx[c2].open /\ claimTx[c2].db = LocalNode
        /\ <<claimTx[c2].sel[1].id, c1>> \in holders[LocalNode]

\* No event is queued and no worker is inside a job or has one to claim.
Quiescent ==
    /\ \A n \in Nodes : inbox[n] = {}
    /\ \A n \in Nodes : worker[n] = IdleWorker /\ ClaimCandidates(store[n]) = {}

\* C3: once every broadcast has been delivered to every node, the stores of
\* all nodes hold the same set of (extern_id, payload, done) triples.
C3_StoresConverge ==
    Quiescent => \A a, b \in Nodes : Items(store[a]) = Items(store[b])

\* C4: handling the same todo event twice leaves the items that handling it
\* once leaves.
C4_Idempotent ==
    \A e \in WireEvents :
        e.Name \in TodoEventNames =>
            Items(ApplyTwo(LocalNode, store[LocalNode], nextID[LocalNode], e, e))
              = Items(ApplyEvent(LocalNode, store[LocalNode], nextID[LocalNode], e))

\* C5: for an extern_id the store does not hold, an updated event followed by
\* the matching created event leaves the items that the created event with
\* the same payload followed by the updated event leaves.
C5_UpdatedCreatedCommute ==
    \A u, c \in WireEvents :
        ( /\ u.Name = EventTodoUpdated /\ c.Name = EventTodoCreated
          /\ c.ExternID = u.ExternID /\ c.Todo = u.Todo /\ c.NodeID = u.NodeID
          /\ GetTodoByExternID(store[LocalNode], u.ExternID) = {} )
        => Items(ApplyTwo(LocalNode, store[LocalNode], nextID[LocalNode], u, c))
             = Items(ApplyTwo(LocalNode, store[LocalNode], nextID[LocalNode], c, u))

\* C6: a created event of a peer for an extern_id the store does not hold
\* inserts a row whose done flag is the event's.
C6_CreatedKeepsDone ==
    \A e \in WireEvents :
        ( /\ e.Name = EventTodoCreated /\ e.NodeID # LocalNode
          /\ GetTodoByExternID(store[LocalNode], e.ExternID) = {} )
        => \A r \in ApplyEvent(LocalNode, store[LocalNode], nextID[LocalNode], e) :
              r.extern_id = e.ExternID => r.completed = e.Completed[1]

\* C7: handling an event whose origin is the handling node leaves that
\* node's store unchanged.
C7_OwnEventsIgnored ==
    [][ (handled' # NULL /\ handled'[1].event.NodeID = handled'[1].node)
          => store' = store ]_vars

\* The node just handled its own deleted event for an extern_id it holds
\* (the item was created again before the event came back).
C7_OwnEventHandled ==
    /\ handled # NULL
    /\ handled[1].event.NodeID = handled[1].node
    /\ handled[1].event.Name = EventTodoDeleted
    /\ \E r \in store[handled[1].node] : r.extern_id = handled[1].event.ExternID

\* C8: handling a job event, of any kind and origin, leaves every row of the
\* handling node's store unchanged.
C8_JobEventsChangeNothing ==
    [][ (handled' # NULL /\ handled'[1].event.Name \in JobEventNames)
          => store' = store ]_vars

\* The node just handled a peer's job:released for a row it holds claimed.
C8_PeerReleaseHandled ==
    /\ handled # NULL
    /\ handled[1].event.Name = EventJobReleased
    /\ handled[1].event.NodeID # handled[1].node
    /\ \E r \in store[handled[1].node] :
          /\ r.extern_id = handled[1].event.ExternID
          /\ r.processing_status \in {StatusClaimed, StatusProcessing}

\* C9: claimed_by, claimed_at and last_heartbeat are set exactly on the rows
\* whose processing_status is claimed or processing.
C9_ClaimFieldsIffClaimed ==
    \A n \in Nodes : \A r \in store[n] :
        LET held == r.processing_status \in {StatusClaimed, StatusProcessing}
        IN  /\ r.claimed_by # NULL <=> held
            /\ r.claimed_at # NULL <=> held
            /\ r.last_heartbeat # NULL <=> held

C11_ClaimedOnlyUndone ==
    [][ \A n \in Nodes : \A r \in store[n], q \in store'[n] :
            ( /\ r.id = q.id
              /\ r.processing_status = StatusPending
              /\ q.processing_status = StatusClaimed )
            => ~q.completed ]_vars

\* A claim has selected a row and, before its UPDATE, another connection
\* set the row's completed flag.
C11_ClaimRacedByDone ==
    /\ claimTx[LocalNode].open
    /\ claimTx[LocalNode].stale
    /\ \E r \in store[LocalNode] :
          /\ r.id = claimTx[LocalNode].sel[1].id
          /\ r.processing_status = StatusPending
          /\ r.completed

\* C12: no two rows of a node's store have the same extern_id, however the
\* HTTP creates interleave with handlers that check for the row and insert.
C12_ExternIDUnique ==
    \A n \in Nodes : \A r1, r2 \in store[n] :
        r1.extern_id = r2.extern_id => r1 = r2

\* A handler found the extern_id absent and, before its insert, the HTTP
\* handler created a row with that extern_id.
C12_CreateRacedHandler ==
    /\ lookup # NULL
    /\ GetTodoByExternID(store[LocalNode], lookup[1].ExternID) # {}

\* The extern_ids of a table.
ExternIDsOf(rows) == {r.extern_id : r \in rows}

\* C13: once a node's ready flag is true it is true in every later state,
\* whatever member events, queries or timeouts follow.
C13_ReadyLatched ==
    [][ \A n \in Nodes : boot.proc[n].ready => boot'.proc[n].ready ]_vars

\* Start's timeout marked the node ready while requestFullSync still sleeps:
\* a second markReady is to come.
C13_ReadyBeforeSyncEnds ==
    /\ boot.proc[Joiner].ready
    /\ boot.proc[Joiner].start = "done"
    /\ boot.proc[Joiner].sync = "sleep"

\* C14: the node eventually becomes ready, and Start has returned only in
\* states where the ready flag is set, whatever is lost.
C14_EventuallyReady ==
    /\ <>(boot.proc[Joiner].ready)
    /\ [](boot.proc[Joiner].start = "done" => boot.proc[Joiner].ready)

\* The node joined its seed, never saw its own join event and ran no sync;
\* Start returned with the node ready.
C14_ReadyWithoutSync ==
    /\ boot.proc[Joiner].ready
    /\ boot.proc[Joiner].joined
    /\ boot.proc[Joiner].start = "done"
    /\ boot.proc[Joiner].sync = "none"
    /\ ~boot.proc[Joiner].selfJoin

\* C15: a node whose seeds are all unreachable is not ready before its join
\* retry loop has ended.
C15_NotReadyBeforeRetries ==
    (boot.seeds = "down" /\ boot.proc[Joiner].ready)
        => boot.proc[Joiner].start = "done"

DoneTransition(n, x) ==
    /\ worker[n].pc = "finishing"
    /\ worker'[n].pc = "finalising"
    /\ worker[n].todo[1].extern_id = x

\* C17: for one item, only one node's worker performs the transition to
\* done = true: when a worker sets it, no other node's worker is setting it
\* or has completed the job on its own copy.
C17_OneWorkerSetsDone ==
    [][ \A n \in Nodes, x \in ExternIDs :
          DoneTransition(n, x) =>
             \A m \in Nodes \ {n} :
                /\ ~(worker[m].pc = "finalising" /\ worker[m].todo[1].extern_id = x)
                /\ \A r \in store[m] :
                      r.extern_id = x => r.processing_status # StatusCompleted
      ]_vars

\* C18: when the worker sets done = true on completing a job, a todo:updated
\* event carrying done = true for the item goes out to every peer.
C18_DoneIsBroadcast ==
    [][ \A n \in Nodes, x \in ExternIDs :
          DoneTransition(n, x) =>
             \A m \in members \ {n} : \E p \in inbox'[m] :
                /\ p.Name = EventTodoUpdated
                /\ p.ExternID = x
                /\ p.Completed = Some(TRUE)
                /\ p.NodeID = n
      ]_vars

(***************************************************************************)
(* A crash: node A is killed while it holds a claim and node B survives.   *)
(* Serf's failure detector takes A off the member list and queues          *)
(* EventMemberFailed on the eventCh of B.                                  *)
(***************************************************************************)
NodeA == "n1"
NodeB == "n2"
EventMemberFailed == "member-failed"

\* serf.MemberEvent of the given type for member name, as queued on eventCh.
MemberEvent(type, name) ==
    [Name |-> type, ExternID |-> "", Todo |-> NULL, Completed |-> NULL,
     NodeID |-> name]

\* The process of n runs.
Alive(n) == n \in members

\* The process of A is killed while its table holds a job claimed by A: its
\* goroutines and open transaction are gone, its database file stays.
Crash ==
    /\ Alive(NodeA)
    /\ GetJobsByNode(store[NodeA], NodeA) # {}
    /\ members' = members \ {NodeA}
    /\ worker' = [worker EXCEPT ![NodeA] = IdleWorker]
    /\ claimTx' = [claimTx EXCEPT ![NodeA] = NoTx]
    /\ inbox' = [inbox EXCEPT ![NodeA] = {},
                              ![NodeB] = @ \cup {MemberEvent(EventMemberFailed, NodeA)}]
    /\ UNCHANGED <<store, nextID, now, holders>>
    /\ handled' = NULL
    /\ UNCHANGED lookup
    /\ UNCHANGED boot

\* handleMemberEvent, EventMemberFailed, and the reclaimJobsFromNode it
\* starts: every job of n's table claimed by the failed node is released and
\* announced with BroadcastJobReleased.
HandleMemberFailed(n) ==
    \E e \in inbox[n] :
        LET jobs == GetJobsByNode(store[n], e.NodeID)
            released == {JobEvent(EventJobReleased, j.extern_id, n) : j \in jobs}
        IN  /\ e.Name = EventMemberFailed
            /\ Commit(n, ReleaseJobs(store[n], jobs))
            /\ inbox' = [m \in Nodes |->
                           IF m \in members
                           THEN (inbox[m] \ (IF m = n THEN {e} ELSE {}))
                                   \cup {Marshal(r) : r \in released}
                           ELSE inbox[m]]
            /\ UNCHANGED <<nextID, now, worker, members>>
            /\ handled' = NULL
            /\ UNCHANGED lookup
            /\ UNCHANGED boot

\* handleEvents on a user event of eventCh.
DeliverUserEvent(n) ==
    \E p \in inbox[n] : p.Name # EventMemberFailed /\ Deliver(n, p, FALSE)

\* B may have been restarted before A is killed, early enough for the clock
\* bound to let the stale timeout of what it held run out.
RestartSurvivor ==
    /\ Alive(NodeA)
    /\ now + staleJobTimeout < MaxTime
    /\ Restart(NodeB)

\* One item is created; B runs on from the moment A is killed.
NextCrash ==
    \/ Tick
    \/ \E n \in Nodes : Alive(n) /\ createTodo(n, "x", "a")
    \/ \E n \in Nodes : Alive(n) /\ DeliverUserEvent(n)
    \/ \E n \in Nodes : Alive(n) /\ HandleMemberFailed(n)
    \/ \E n \in Nodes : Alive(n) /\ WorkerDispatch(n)
    \/ \E n \in Nodes : Alive(n) /\ WorkerClaim(n)
    \/ \E n \in Nodes : Alive(n) /\ WorkerStart(n)
    \/ \E n \in Nodes : Alive(n) /\ HeartbeatTick(n)
    \/ \E n \in Nodes : Alive(n) /\ HeartbeatExit(n)
    \/ \E n \in Nodes : Alive(n) /\ WorkerProcessed(n)
    \/ \E n \in Nodes : Alive(n) /\ WorkerMarkDone(n)
    \/ \E n \in Nodes : Alive(n) /\ WorkerFinalise(n)
    \/ \E n \in Nodes : Alive(n) /\ checkStaleJobs(n)
    \/ Crash
    \/ RestartSurvivor

\* The survivor's event loop and worker keep running.
FairCrash ==
    /\ WF_vars(Tick)
    /\ WF_vars(DeliverUserEvent(NodeB))
    /\ WF_vars(HandleMemberFailed(NodeB))
    /\ WF_vars(WorkerDispatch(NodeB))
    /\ WF_vars(WorkerClaim(NodeB))
    /\ WF_vars(WorkerStart(NodeB))
    /\ WF_vars(HeartbeatExit(NodeB))
    /\ WF_vars(WorkerProcessed(NodeB))
    /\ WF_vars(WorkerMarkDone(NodeB))
    /\ WF_vars(WorkerFinalise(NodeB))
    /\ WF_vars(checkStaleJobs(NodeB))

SpecCrash == Init /\ [][NextCrash]_vars /\ FairCrash

\* Node A was killed holding a claim on extern_id x, which B has a copy of.
CrashedHolding(x) ==
    /\ ~Alive(NodeA)
    /\ \E r \in GetJobsByNode(store[NodeA], NodeA) : r.extern_id = x
    /\ GetTodoByExternID(store[NodeB], x) # {}

\* A job:released event of node n for extern_id x is on the wire.
ReleasedBy(n, x) ==
    \E m \in Nodes : \E p \in inbox[m] :
        p.Name = EventJobReleased /\ p.ExternID = x /\ p.NodeID = n

\* C19: after node A crashed holding a claim on an item, node B eventually
\* releases the item in its store and broadcasts job:released for it.
C19_SurvivorReleases ==
    \A x \in ClusterIDs : CrashedHolding(x) ~> ReleasedBy(NodeB, x)

\* C20: the worker has one job slot: from the return of a successful
\* ClaimNextPendingTodo to the end of the job's finalisation the node is in
\* no further ClaimNextPendingTodo call; a call is open only with the slot
\* empty.
C20_SingleJobSlot ==
    \A n \in Nodes :
        /\ worker[n].todo # NULL => ~claimTx[n].open
        /\ claimTx[n].open => worker[n].pc = "claiming"

\* The worker is processing a job while another row of its table is pending.
C20_PendingWhileBusy ==
    /\ worker[LocalNode].pc = "processing"
    /\ ClaimCandidates(store[LocalNode]) # {}

\* handleUserEvent applied to a table for a sequence of events, in order.
RECURSIVE ApplySeq(_, _, _, _)
ApplySeq(n, rows, id, events) ==
    IF events = <<>> THEN rows
    ELSE LET mid == ApplyEvent(n, rows, id, Head(events))
         IN  ApplySeq(n, mid, IDAfter(mid, id), Tail(events))

\* The orders in which Serf can hand three broadcasts to a peer.
Orders3(e1, e2, e3) ==
    {<<e1, e2, e3>>, <<e1, e3, e2>>, <<e2, e1, e3>>,
     <<e2, e3, e1>>, <<e3, e1, e2>>, <<e3, e2, e1>>}

\* C21: a peer that does not hold x and receives the created, deleted and
\* created events of Create(x); Delete(x); Create(x) ends with exactly one
\* item with extern_id x.
C21_PeerKeepsOneItem ==
    \A m \in Nodes \ {LocalNode}, x \in ClusterIDs, t1, t2 \in Todos :
        GetTodoByExternID(store[LocalNode], x) = {} =>
            \A order \in Orders3(TodoCreatedEvent(NewTodo(1, x, t1, now), m),
                                 TodoDeletedEvent(x, m),
                                 TodoCreatedEvent(NewTodo(2, x, t2, now), m)) :
                Cardinality(GetTodoByExternID(
                    ApplySeq(LocalNode, store[LocalNode], nextID[LocalNode], order),
                    x)) = 1

\* Create(x); Delete(x); Create(x) on one table that does not hold x: every
\* call succeeds and one pending row with done = false is left.
CreateDeleteCreate(rows, id, x, t1, t2, t) ==
    LET c1 == CreateTodo(rows, id, x, t1, t)
        d  == DeleteTodo(c1.rows, id)
        c2 == CreateTodo(d, id + 1, x, t2, t)
    IN  /\ ~c1.err
        /\ d # c1.rows
        /\ ~c2.err
        /\ \E r \in c2.rows :
              /\ GetTodoByExternID(c2.rows, x) = {r}
              /\ r.processing_status = StatusPending
              /\ ~r.completed

\* The local half of the law, on every table the node reaches.
LocalCreateDeleteCreate ==
    \A x \in ExternIDs, t1, t2 \in Todos :
        GetTodoByExternID(store[LocalNode], x) = {} =>
            CreateDeleteCreate(store[LocalNode], nextID[LocalNode], x, t1, t2, now)

(***************************************************************************)
(* internal/database on its own: one table, any caller, any argument.  The *)
(* table starts as one the program writes, and every call takes time.      *)
(***************************************************************************)
Statuses ==
    {StatusPending, StatusClaimed, StatusProcessing, StatusCompleted, StatusFailed}

\* The rows the worker's calls lead a new row through, claimed by node c at
\* time t, and the rows a client's done = true leaves.
RowShapes(id, x, c, t) ==
    LET new       == NewTodo(id, x, "a", t)
        claimed   == ClaimUpdateRows({new}, {new}, c, t)
        running   == MarkJobProcessing(claimed, x, t)
        done      == UpdateTodo(running, id, NULL, Some(TRUE))
        completed == UpdateJobStatus(done, x, StatusCompleted, t)
        failed    == UpdateJobStatus(running, x, StatusFailed, t)
    IN  {new} \cup claimed \cup running \cup done \cup completed \cup failed
              \cup UpdateTodo({new}, id, NULL, Some(TRUE))
              \cup UpdateTodo(claimed, id, NULL, Some(TRUE))
              \cup ReleaseJob(running, x)

\* The tables of at most one row per extern_id, written at time 1.
APITables ==
    LET X == UNION {RowShapes(1, "x", c, 1) : c \in Nodes}
        Y == UNION {RowShapes(2, "y", c, 1) : c \in Nodes}
    IN  {{}} \cup {{r} : r \in X} \cup {{r, q} : r \in X, q \in Y}

InitAPI ==
    /\ \E rows \in APITables :
          /\ store = [n \in Nodes |-> IF n = LocalNode THEN rows ELSE {}]
          /\ nextID = [n \in Nodes |-> IF n = LocalNode THEN Cardinality(rows) + 1 ELSE 1]
    /\ now = 2
    /\ inbox = [n \in Nodes |-> {}]
    /\ worker = [n \in Nodes |-> IdleWorker]
    /\ claimTx = [n \in Nodes |-> NoTx]
    /\ holders = [n \in Nodes |-> {}]
    /\ members = {}
    /\ handled = NULL
    /\ lookup = NULL
    /\ boot = Running

\* One call on the table of LocalNode that leaves newRows; the clock moves on.
APICall(newRows) ==
    /\ now <= MaxTime
    /\ now' = now + 1
    /\ Commit(LocalNode, newRows)
    /\ nextID' = NextIDAfter(LocalNode, newRows)
    /\ UNCHANGED <<inbox, worker, members>>
    /\ handled' = NULL
    /\ UNCHANGED lookup
    /\ UNCHANGED boot

\* The AUTOINCREMENT counter is capped one above the rows the tables start with.
APICreate(x, t) ==
    /\ nextID[LocalNode] <= MaxID + 1
    /\ APICall(CreateTodo(store[LocalNode], nextID[LocalNode], x, t, now).rows)
APIUpdate(id, todo, completed) ==
    APICall(UpdateTodo(store[LocalNode], id, todo, completed))
APIDelete(id) ==
    APICall(DeleteTodo(store[LocalNode], id))
\* ClaimNextPendingTodo(nodeID) with no other connection writing: the row it
\* returns (nil without a candidate) and the table it leaves.
ClaimNextPendingTodo(rows, nodeID, t) ==
    IF ClaimCandidates(rows) = {}
    THEN {[todo |-> NULL, rows |-> rows]}
    ELSE {[todo |-> Some(CHOOSE q \in ClaimUpdate(rows, FALSE, r.id, nodeID, t).rows :
                              q.id = r.id),
           rows |-> ClaimUpdate(rows, FALSE, r.id, nodeID, t).rows]
             : r \in ClaimCandidates(rows)}
APIClaim(c) ==
    \E res \in ClaimNextPendingTodo(store[LocalNode], c, now) : APICall(res.rows)
APIHeartbeat(x, c) ==
    APICall(SendHeartbeat(store[LocalNode], x, c, now))
APIRelease(x) ==
    APICall(ReleaseJob(store[LocalNode], x))
APIMarkProcessing(x) ==
    APICall(MarkJobProcessing(store[LocalNode], x, now))
APIUpdateJobStatus(x, status) ==
    APICall(UpdateJobStatus(store[LocalNode], x, status, now))

NextAPI ==
    \/ \E x \in ExternIDs, t \in Todos : APICreate(x, t)
    \/ \E id \in 1..(MaxID + 1), t \in OptTodo, c \in OptBool : APIUpdate(id, t, c)
    \/ \E id \in 1..(MaxID + 1) : APIDelete(id)
    \/ \E c \in Nodes : APIClaim(c)
    \/ \E x \in ExternIDs, c \in Nodes : APIHeartbeat(x, c)
    \/ \E x \in ExternIDs : APIRelease(x)
    \/ \E x \in ExternIDs : APIMarkProcessing(x)
    \/ \E x \in ExternIDs, st \in Statuses : APIUpdateJobStatus(x, st)

SpecAPI == InitAPI /\ [][NextAPI]_vars

\* C22: CreateTodo for an extern_id the table holds fails and leaves the
\* table as it is; for one it does not hold it adds exactly one row, pending,
\* not done, created now and with every claim column NULL.
C22_CreateDuplicateOrAdd ==
    \A x \in ExternIDs, t \in Todos :
        LET rows == store[LocalNode]
            res  == CreateTodo(rows, nextID[LocalNode], x, t, now)
        IN  IF \E r \in rows : r.extern_id = x
            THEN res.err /\ res.rows = rows
            ELSE /\ ~res.err
                 /\ res.rows = rows \cup
                      {[id |-> nextID[LocalNode], extern_id |-> x, todo |-> t,
                        completed |-> FALSE, created_at |-> now,
                        processing_status |-> StatusPending,
                        claimed_by |-> NULL, claimed_at |-> NULL,
                        last_heartbeat |-> NULL, processing_started_at |-> NULL,
                        processing_completed_at |-> NULL]}
                 /\ Cardinality(res.rows) = Cardinality(rows) + 1

\* A row was created beside a row the table held: a further CreateTodo for
\* either extern_id is a duplicate.
C22_CreatedBesideHeld ==
    \E r, q \in store[LocalNode] :
        /\ r.extern_id # q.extern_id
        /\ r.created_at > 1
        /\ r = NewTodo(r.id, r.extern_id, r.todo, r.created_at)
        /\ q.processing_status # StatusPending

\* The pending rows that are not done.
Claimable(rows) ==
    {r \in rows : r.processing_status = StatusPending /\ ~r.completed}

\* C23: ClaimNextPendingTodo(node) returns a claimable row with the smallest
\* created_at, now claimed by node with claimed_at = last_heartbeat = now and
\* nothing else changed; without a claimable row it returns nil and leaves
\* the table as it is.
C23_ClaimsOldestPending ==
    \A c \in Nodes :
        LET rows == store[LocalNode]
        IN  \A res \in ClaimNextPendingTodo(rows, c, now) :
               IF Claimable(rows) = {}
               THEN res.todo = NULL /\ res.rows = rows
               ELSE \E r \in Claimable(rows) :
                       /\ \A q \in Claimable(rows) : r.created_at <= q.created_at
                       /\ res.todo = Some([r EXCEPT !.processing_status = StatusClaimed,
                                                    !.claimed_by = Some(c),
                                                    !.claimed_at = Some(now),
                                                    !.last_heartbeat = Some(now)])
                       /\ res.rows = (rows \ {r}) \cup {res.todo[1]}

\* The older of two claimable rows was claimed in the run; the younger one
\* is still pending.
C23_OlderClaimedFirst ==
    \E r, q \in store[LocalNode] :
        /\ r.processing_status = StatusClaimed
        /\ r.claimed_at = r.last_heartbeat
        /\ r.claimed_at # NULL /\ r.claimed_at[1] > 1
        /\ q \in Claimable(store[LocalNode])
        /\ r.created_at < q.created_at

\* C24: SendHeartbeat(extern_id, node) succeeds exactly when the table holds
\* the extern_id claimed by node as claimed or processing, and then sets
\* last_heartbeat to now and nothing else; otherwise it returns the error and
\* leaves the table as it is.
C24_HeartbeatOnlyByOwner ==
    \A x \in ExternIDs, c \in Nodes :
        LET rows  == store[LocalNode]
            err   == HeartbeatMatch(rows, x, c) = {}
            after == SendHeartbeat(rows, x, c, now)
            owned == {r \in rows : /\ r.extern_id = x
                                   /\ r.claimed_by = Some(c)
                                   /\ r.processing_status = StatusClaimed
                                        \/ r.processing_status = StatusProcessing}
        IN  IF owned = {}
            THEN err /\ after = rows
            ELSE /\ ~err
                 /\ after = (rows \ owned)
                      \cup {[r EXCEPT !.last_heartbeat = Some(now)] : r \in owned}

\* The owner's heartbeat refreshed a job that another node's heartbeat is
\* refused for.
C24_HeartbeatRefreshed ==
    \E r \in store[LocalNode] :
        /\ r.processing_status \in {StatusClaimed, StatusProcessing}
        /\ r.claimed_by # NULL /\ r.claimed_at # NULL /\ r.last_heartbeat # NULL
        /\ r.last_heartbeat[1] > r.claimed_at[1]
        /\ \E c \in Nodes : r.claimed_by # Some(c)

\* C25: ReleaseJob(extern_id) leaves the row pending with claimed_by,
\* claimed_at, last_heartbeat and processing_started_at NULL whatever its
\* status was, and keeps its other columns and every other row.
C25_ReleaseResets ==
    \A x \in ExternIDs :
        LET rows  == store[LocalNode]
            after == ReleaseJob(rows, x)
        IN  /\ \A q \in rows : q.extern_id # x => q \in after
            /\ Cardinality(after) = Cardinality(rows)
            /\ \A r \in rows : r.extern_id = x =>
                  [id |-> r.id, extern_id |-> x, todo |-> r.todo,
                   completed |-> r.completed, created_at |-> r.created_at,
                   processing_status |-> StatusPending,
                   claimed_by |-> NULL, claimed_at |-> NULL,
                   last_heartbeat |-> NULL, processing_started_at |-> NULL,
                   processing_completed_at |-> r.processing_completed_at] \in after

\* A completed job was released beside a job that is still held.
C25_TerminalReleased ==
    \E r, q \in store[LocalNode] :
        /\ r.processing_status = StatusPending
        /\ r.claimed_by = NULL
        /\ r.processing_completed_at # NULL
        /\ r.completed
        /\ q.processing_status \in {StatusClaimed, StatusProcessing}
        /\ q.claimed_by # NULL

\* C26: UpdateTodo(id, todo, completed) changes the supplied columns of row
\* id and nothing else; with neither supplied, or with no row of that id
\* (it then returns nil), the table is left as it is.
C26_UpdateTouchesSupplied ==
    \A id \in 1..(MaxID + 1), todo \in OptTodo, completed \in OptBool :
        LET rows  == store[LocalNode]
            after == UpdateTodo(rows, id, todo, completed)
        IN  /\ (\A r \in rows : r.id # id) => after = rows /\ GetTodo(after, id) = {}
            /\ (todo = NULL /\ completed = NULL) => after = rows
            /\ Cardinality(after) = Cardinality(rows)
            /\ \A q \in rows : q.id # id => q \in after
            /\ \A r \in rows : r.id = id =>
                  [id |-> id, extern_id |-> r.extern_id,
                   todo |-> IF todo = NULL THEN r.todo ELSE todo[1],
                   completed |-> IF completed = NULL THEN r.completed ELSE completed[1],
                   created_at |-> r.created_at,
                   processing_status |-> r.processing_status,
                   claimed_by |-> r.claimed_by, claimed_at |-> r.claimed_at,
                   last_heartbeat |-> r.last_heartbeat,
                   processing_started_at |-> r.processing_started_at,
                   processing_completed_at |-> r.processing_completed_at] \in after

\* The payload of a job that is being processed was updated.
C26_UpdatedWhileProcessing ==
    \E r \in store[LocalNode] :
        /\ r.todo = "b"
        /\ r.created_at = 1
        /\ r.processing_status = StatusProcessing
        /\ r.claimed_by # NULL

\* C27: MarkJobProcessing(extern_id) moves a claimed row to processing and
\* stamps processing_started_at, changing nothing else; a row in another
\* status, or no row, leaves the table as it is (the call returns no error
\* in either case).
C27_MarkOnlyClaimed ==
    \A x \in ExternIDs :
        LET rows    == store[LocalNode]
            after   == MarkJobProcessing(rows, x, now)
            claimed == {r \in rows : r.extern_id = x
                                     /\ r.processing_status = StatusClaimed}
        IN  IF claimed = {}
            THEN after = rows
            ELSE after = (rows \ claimed)
                    \cup {[r EXCEPT !.processing_status = StatusProcessing,
                                    !.processing_started_at = Some(now)]
                            : r \in claimed}

\* A claimed job was marked processing in the run; a second call finds it
\* processing.
C27_MarkedProcessing ==
    \E r \in store[LocalNode] :
        /\ r.processing_status = StatusProcessing
        /\ r.claimed_at = Some(1)
        /\ r.processing_started_at # NULL
        /\ r.processing_started_at[1] > 1

(***************************************************************************)
(* Shutdown: Stop on the cluster layer and on the worker of one node, each *)
(* called any number of times from one goroutine while the node runs.      *)
(***************************************************************************)
MaxStops == 2

\* Stop's state of node n.
StopState(n) == IF n \in DOMAIN boot.stop THEN boot.stop[n] ELSE NotStopped

\* Stop's state of node n becomes s.
SetStop(n, s) ==
    boot' = [boot EXCEPT !.stop = [m \in DOMAIN boot.stop \cup {n} |->
                                      IF m = n THEN s ELSE boot.stop[m]]]

\* A Stop without the stopped flag.
StopUnguarded(c, err) ==
    [c EXCEPT !.stopped = TRUE, !.shutdown = @ + 1, !.left = @ + 1,
              !.down = @ + 1, !.stops = @ + 1, !.stopErr = err]
\* Cluster.Stop on the state c: a stopped layer returns nil; else the flag is
\* set, shutdown is closed, serf.Leave (its error is logged) and
\* serf.Shutdown are called, and the error of serf.Shutdown is returned.
Stop(c, err) ==
    IF c.stopped
    THEN [c EXCEPT !.stops = @ + 1, !.stopErr = FALSE]
    ELSE [c EXCEPT !.stopped = TRUE, !.shutdown = @ + 1, !.left = @ + 1,
                   !.down = @ + 1, !.stops = @ + 1, !.stopErr = err]

\* Worker.Stop on the state w: returns when stopped; else the flag is set,
\* shutdown is closed and both tickers are stopped.
StopWorker(w) ==
    IF w.stopped
    THEN [w EXCEPT !.stops = @ + 1]
    ELSE [w EXCEPT !.stopped = TRUE, !.shutdown = @ + 1, !.tickers = @ + 1,
                   !.stops = @ + 1]

\* A call of Cluster.Stop on node n; serf.Shutdown may fail.
ClusterStop(n) ==
    /\ StopState(n).cluster.stops < MaxStops
    /\ \E err \in BOOLEAN :
          SetStop(n, [StopState(n) EXCEPT !.cluster = Stop(@, err)])
    /\ members' = IF StopState(n).cluster.stopped THEN members ELSE members \ {n}
    /\ UNCHANGED <<store, nextID, now, inbox, worker, claimTx, holders>>
    /\ handled' = NULL
    /\ UNCHANGED lookup

\* A call of Worker.Stop on node n.
WorkerStop(n) ==
    /\ StopState(n).worker.stops < MaxStops
    /\ SetStop(n, [StopState(n) EXCEPT !.worker = StopWorker(@)])
    /\ UNCHANGED <<store, nextID, now, inbox, worker, claimTx, holders, members>>
    /\ handled' = NULL
    /\ UNCHANGED lookup

\* handleEvents takes the shutdown case of its select and returns.
EventLoopExit(n) ==
    /\ StopState(n).cluster.loop = "running"
    /\ StopState(n).cluster.shutdown > 0
    /\ SetStop(n, [StopState(n) EXCEPT !.cluster.loop = "exited"])
    /\ UNCHANGED <<store, nextID, now, inbox, worker, claimTx, holders, members>>
    /\ handled' = NULL
    /\ UNCHANGED lookup

\* workerLoop takes the shutdown case of its select and returns.
WorkerLoopExit(n) ==
    /\ worker[n].pc = "idle"
    /\ StopState(n).worker.shutdown > 0
    /\ worker' = [worker EXCEPT ![n].pc = "exited"]
    /\ UNCHANGED <<store, nextID, now, inbox, claimTx, holders, members>>
    /\ handled' = NULL
    /\ UNCHANGED lookup
    /\ UNCHANGED boot

\* heartbeatLoop takes the shutdown case of its select and returns.
HeartbeatShutdown(n) ==
    /\ worker[n].hb \in {"on", "closing"}
    /\ StopState(n).worker.shutdown > 0
    /\ worker' = [worker EXCEPT ![n].hb = "off", ![n].hbID = NULL]
    /\ UNCHANGED <<store, nextID, now, inbox, claimTx, holders, members>>
    /\ handled' = NULL
    /\ UNCHANGED lookup
    /\ UNCHANGED boot

\* handleEvents handles an event of the wire while it runs.
ReceiveRunning(n) ==
    /\ StopState(n).cluster.loop = "running"
    /\ \E e \in WireEvents : e.Name = EventTodoCreated /\ Receive(n, e)

NextStop ==
    \/ \E t \in Todos : createTodo(LocalNode, "x", t)
    \/ ReceiveRunning(LocalNode)
    \/ WorkerDispatch(LocalNode)
    \/ WorkerClaim(LocalNode)
    \/ WorkerStart(LocalNode)
    \/ HeartbeatTick(LocalNode)
    \/ HeartbeatExit(LocalNode)
    \/ WorkerProcessed(LocalNode)
    \/ WorkerMarkDone(LocalNode)
    \/ WorkerFinalise(LocalNode)
    \/ ClusterStop(LocalNode)
    \/ WorkerStop(LocalNode)
    \/ EventLoopExit(LocalNode)
    \/ WorkerLoopExit(LocalNode)
    \/ HeartbeatShutdown(LocalNode)

SpecStop == InitStore /\ [][NextStop]_vars

\* C28: a call of Stop on a stopped cluster layer or worker returns nil and
\* changes nothing; the shutdown channels are closed once, and serf.Leave and
\* serf.Shutdown are called once.
C28_StopIdempotent ==
    /\ [](\A n \in Nodes :
            /\ StopState(n).cluster.shutdown <= 1
            /\ StopState(n).cluster.left <= 1
            /\ StopState(n).cluster.down <= 1
            /\ StopState(n).worker.shutdown <= 1
            /\ StopState(n).worker.tickers <= 1)
    /\ [][ \A n \in DOMAIN boot.stop :
            /\ ( /\ boot.stop[n].cluster.stopped
                 /\ boot'.stop[n].cluster.stops > boot.stop[n].cluster.stops )
               => /\ boot' = [boot EXCEPT !.stop[n].cluster.stops = @ + 1,
                                          !.stop[n].cluster.stopErr = FALSE]
                  /\ UNCHANGED <<store, nextID, inbox, worker, claimTx, members>>
            /\ ( /\ boot.stop[n].worker.stopped
                 /\ boot'.stop[n].worker.stops > boot.stop[n].worker.stops )
               => /\ boot' = [boot EXCEPT !.stop[n].worker.stops = @ + 1]
                  /\ UNCHANGED <<store, nextID, inbox, worker, claimTx, members>>
       ]_vars

\* Both Stops were called a second time, the first Cluster.Stop having
\* closed shutdown once.
C28_StoppedTwice ==
    /\ StopState(LocalNode).cluster.stops = 2
    /\ StopState(LocalNode).worker.stops = 2
    /\ StopState(LocalNode).cluster.shutdown = 1
    /\ StopState(LocalNode).worker.shutdown = 1

(***************************************************************************)
(* The processing_status of a row over the steps of one node.              *)
(***************************************************************************)
\* C29: whenever a row of a node's table (the same id and extern_id before
\* and after a step) changes its processing_status, the change is an edge of
\* the state machine: pending to claimed, claimed to processing, processing
\* to completed or failed, claimed or processing to pending.
C29_StatusFollowsEdges ==
    [][ LET edges ==
              { <<StatusPending, StatusClaimed>>,
                <<StatusClaimed, StatusProcessing>>,
                <<StatusProcessing, StatusCompleted>>,
                <<StatusProcessing, StatusFailed>>,
                <<StatusClaimed, StatusPending>>,
                <<StatusProcessing, StatusPending>> }
        IN  \A n \in Nodes : \A r \in store[n] : \A q \in store'[n] :
               ( /\ q.id = r.id
                 /\ q.extern_id = r.extern_id
                 /\ q.processing_status # r.processing_status )
               => <<r.processing_status, q.processing_status>> \in edges
      ]_vars

(***************************************************************************)
(* The broadcasts of one job.  LocalNode runs the worker, every member     *)
(* takes the events off its channel.  The heartbeat goroutine is followed  *)
(* call by call: between its SendHeartbeat and its BroadcastJobHeartbeat   *)
(* the worker goroutine runs on.                                           *)
(***************************************************************************)
\* heartbeatLoop, ticker case, first call: SendHeartbeat; an error ends the
\* goroutine.  With done closed the select may still take a tick that is due.
HeartbeatSend(n) ==
    LET externID == worker[n].hbID[1]
    IN  /\ worker[n].hb \in {"on", "closing"}
        /\ IF HeartbeatMatch(store[n], externID, n) = {}
           THEN /\ worker' = [worker EXCEPT ![n].hb = "off", ![n].hbID = NULL]
                /\ UNCHANGED <<store, claimTx, holders>>
           ELSE /\ Commit(n, SendHeartbeat(store[n], externID, n, now))
                /\ worker' = [worker EXCEPT
                                ![n].hb = IF @ = "on" THEN "sent" ELSE "sentClosing"]
        /\ UNCHANGED <<nextID, now, inbox, members>>
        /\ handled' = NULL
        /\ UNCHANGED lookup
        /\ UNCHANGED boot

\* heartbeatLoop, ticker case, second call: BroadcastJobHeartbeat; the next
\* select takes done when it was closed meanwhile.
HeartbeatBroadcast(n) ==
    LET externID == worker[n].hbID[1]
    IN  /\ worker[n].hb \in {"sent", "sentClosing"}
        /\ Broadcast({JobEvent(EventJobHeartbeat, externID, n)})
        /\ worker' = IF worker[n].hb = "sent"
                     THEN [worker EXCEPT ![n].hb = "on"]
                     ELSE [worker EXCEPT ![n].hb = "off", ![n].hbID = NULL]
        /\ UNCHANGED <<store, nextID, now, claimTx, holders, members>>
        /\ handled' = NULL
        /\ UNCHANGED lookup
        /\ UNCHANGED boot

NextJob ==
    \/ \E t \in Todos : createTodo(LocalNode, "x", t)
    \/ \E n \in Nodes : DeliverUserEvent(n)
    \/ WorkerDispatch(LocalNode)
    \/ WorkerClaim(LocalNode)
    \/ WorkerStart(LocalNode)
    \/ HeartbeatSend(LocalNode)
    \/ HeartbeatBroadcast(LocalNode)
    \/ HeartbeatExit(LocalNode)
    \/ WorkerProcessed(LocalNode)
    \/ WorkerMarkDone(LocalNode)
    \/ WorkerFinalise(LocalNode)

SpecJob == Init /\ [][NextJob]_vars

\* broadcastEvent: node n hands the job event name for x to serf in this step.
Emits(n, name, x) ==
    \E m \in members : \E p \in inbox'[m] \ inbox[m] :
        p.Name = name /\ p.ExternID = x /\ p.NodeID = n

\* The job of x is running on n's worker: started was broadcast, completed
\* or failed was not yet.
JobInFlight(n, x) ==
    /\ worker[n].todo # NULL
    /\ worker[n].todo[1].extern_id = x
    /\ worker[n].pc \in {"processing", "finishing", "finalising"}

\* C30: the broadcasts of a job come in the order claimed, started,
\* heartbeats, then completed or failed: claimed is broadcast by the step
\* in which ClaimNextPendingTodo returned the row, started by the step of
\* MarkJobProcessing, a heartbeat only while the job is in flight (after its
\* started and before its completed or failed), and completed or failed by
\* the step of UpdateJobStatus that ends the job.
C30_BroadcastOrder ==
    [][ \A n \in Nodes, x \in ExternIDs :
          /\ Emits(n, EventJobClaimed, x)
                => worker[n].pc = "claiming" /\ worker'[n].pc = "claimed"
          /\ Emits(n, EventJobStarted, x)
                => worker[n].pc = "claimed" /\ worker'[n].pc = "processing"
          /\ Emits(n, EventJobHeartbeat, x) => JobInFlight(n, x)
          /\ (Emits(n, EventJobCompleted, x) \/ Emits(n, EventJobFailed, x))
                => JobInFlight(n, x) /\ worker'[n].todo = NULL
      ]_vars

(***************************************************************************)
(* The stale sweep: LocalNode was restarted over the rows its worker had   *)
(* written, the clock moves on and the worker loop sweeps; every member    *)
(* takes the events off its channel.                                       *)
(***************************************************************************)
\* The tables a restart leaves: x written at time 1 and y at time 2, each at
\* any point of the worker's calls.
SweepTables ==
    LET X == RowShapes(1, "x", LocalNode, 1)
        Y == RowShapes(2, "y", LocalNode, 2)
    IN  {{r} : r \in X} \cup {{r, q} : r \in X, q \in Y}

InitSweep ==
    /\ \E rows \in SweepTables :
          /\ store = [n \in Nodes |-> IF n = LocalNode THEN rows ELSE {}]
          /\ nextID = [n \in Nodes |-> IF n = LocalNode THEN Cardinality(rows) + 1 ELSE 1]
    /\ now = 2
    /\ inbox = [n \in Nodes |-> {}]
    /\ worker = [n \in Nodes |-> IdleWorker]
    /\ claimTx = [n \in Nodes |-> NoTx]
    /\ holders = [n \in Nodes |-> {}]
    /\ members = Nodes
    /\ handled = NULL
    /\ lookup = NULL
    /\ boot = Running

NextSweep ==
    \/ Tick
    \/ checkStaleJobs(LocalNode)
    \/ \E n \in Nodes : DeliverUserEvent(n)

SpecSweep == InitSweep /\ [][NextSweep]_vars

\* C31: a stale sweep of node n releases exactly the claimed or processing
\* rows whose last_heartbeat is strictly before now minus the stale timeout:
\* each becomes pending with claimed_by, claimed_at and last_heartbeat NULL
\* and a released event for it reaches every member; every other row, one
\* whose heartbeat is at the cutoff included, stays as it is.
C31_SweepReleasesStale ==
    [][ \A n \in Nodes :
          checkStaleJobs(n) =>
            /\ Cardinality(store'[n]) = Cardinality(store[n])
            /\ \A r \in store[n] :
                 IF /\ r.processing_status \in {StatusClaimed, StatusProcessing}
                    /\ r.last_heartbeat # NULL
                    /\ r.last_heartbeat[1] < now - staleJobTimeout
                 THEN /\ \E q \in store'[n] :
                           /\ q.id = r.id /\ q.extern_id = r.extern_id
                           /\ q.todo = r.todo /\ q.completed = r.completed
                           /\ q.processing_status = StatusPending
                           /\ q.claimed_by = NULL
                           /\ q.claimed_at = NULL
                           /\ q.last_heartbeat = NULL
                      /\ \A m \in members : \E p \in inbox'[m] :
                           /\ p.Name = EventJobReleased
                           /\ p.ExternID = r.extern_id
                 ELSE /\ r \in store'[n]
                      /\ \A m \in members : \A p \in inbox'[m] \ inbox[m] :
                           p.ExternID # r.extern_id
      ]_vars

\* A sweep released x, whose heartbeat was older than the cutoff, and left y,
\* claimed with its heartbeat at the cutoff.
C31_SweptBesideFresh ==
    /\ \E p \in inbox[NodeB] : p.Name = EventJobReleased /\ p.ExternID = "x"
    /\ \E r \in store[LocalNode] :
          /\ r.extern_id = "x"
          /\ r.processing_status = StatusPending
          /\ r.claimed_by = NULL
    /\ \E r \in store[LocalNode] :
          /\ r.extern_id = "y"
          /\ r.processing_status \in {StatusClaimed, StatusProcessing}
          /\ r.last_heartbeat = Some(now - staleJobTimeout)

(***************************************************************************)
(* Reclaim on failure: LocalNode runs on a database file that holds the    *)
(* rows of jobs run under either node name (-db and -node-name are set     *)
(* independently), and Serf reports NodeB as failed.                       *)
(***************************************************************************)
\* The tables of the file: x and y, each written under a node name and left
\* at any point of the worker's calls (processJob returns no error, so no row
\* is failed).
ReclaimTables ==
    LET Written(id, x) ==
            {r \in UNION {RowShapes(id, x, c, 1) : c \in Nodes} :
                r.processing_status # StatusFailed}
    IN  {{r} : r \in Written(1, "x")}
            \cup {{r, q} : r \in Written(1, "x"), q \in Written(2, "y")}

InitReclaim ==
    /\ \E rows \in ReclaimTables :
          /\ store = [n \in Nodes |-> IF n = LocalNode THEN rows ELSE {}]
          /\ nextID = [n \in Nodes |-> IF n = LocalNode THEN Cardinality(rows) + 1 ELSE 1]
    /\ now = 2
    /\ inbox = [n \in Nodes |->
                  IF n = LocalNode THEN {MemberEvent(EventMemberFailed, NodeB)} ELSE {}]
    /\ worker = [n \in Nodes |-> IdleWorker]
    /\ claimTx = [n \in Nodes |-> NoTx]
    /\ holders = [n \in Nodes |-> {}]
    /\ members = {LocalNode}
    /\ handled = NULL
    /\ lookup = NULL
    /\ boot = Running

NextReclaim ==
    \/ HandleMemberFailed(LocalNode)
    \/ DeliverUserEvent(LocalNode)

SpecReclaim == InitReclaim /\ [][NextReclaim]_vars

QueryRespondFails(m) ==
    /\ boot.proc[Joiner].sync = "query"
    /\ m \in QueryTargets \ boot.asked
    /\ boot' = [boot EXCEPT !.asked = @ \cup {m}]
    /\ StoreUnchanged /\ UNCHANGED <<inbox, members>>

NextQuery ==
    \/ StartSteps
    \/ \E m \in Nodes : QueryRespondFails(m)

SpecQuery == InitStart /\ [][NextQuery]_vars /\ WF_vars(StartSteps)

\* C33: the step in which node m handles the full-state query broadcasts
\* nothing; when it sends its response, the count is the number of rows of
\* its table and the rows of that snapshot are handed to the goroutine; when
\* no response was sent nothing is handed over.  Every later step of the
\* goroutine broadcasts the created event of one row of the snapshot, and
\* the goroutine gets through the whole snapshot.
C33_ReplyThenStream ==
    /\ [][ \A m \in Nodes :
            /\ (m \in boot'.asked \ boot.asked) =>
                 /\ inbox' = inbox
                 /\ IF \E ack \in boot'.acks \ boot.acks : ack.from = m
                    THEN /\ \A ack \in boot'.acks \ boot.acks :
                              ack.from = m => ack.count = Cardinality(store[m])
                         /\ boot'.stream[m] = store[m]
                    ELSE boot'.stream[m] = boot.stream[m]
            /\ (boot'.stream[m] # boot.stream[m] /\ m \notin boot'.asked \ boot.asked) =>
                 \E r \in boot.stream[m] :
                    /\ boot'.stream[m] = boot.stream[m] \ {r}
                    /\ \A k \in members : \E p \in inbox'[k] :
                          /\ p.Name = EventTodoCreated
                          /\ p.ExternID = r.extern_id
                          /\ p.NodeID = m
       ]_vars
    /\ \A m \in Nodes : (boot.stream[m] # {}) ~> (boot.stream[m] = {})

\* The seed has answered with count 2 and broadcast one of its two rows, and
\* its event loop has just handled an event while the other row waits.
C33_StreamingWhileHandling ==
    /\ Cardinality(store[Seed]) = 2
    /\ Cardinality(boot.stream[Seed]) = 1
    /\ boot.proc[Joiner].expected = 2
    /\ handled # NULL
    /\ handled[1].node = Seed

(***************************************************************************)
(* The heartbeat goroutine to its end: LocalNode runs jobs while clients   *)
(* delete their rows and Worker.Stop is called.  A call that was entered   *)
(* returns, processJob returns after its duration, and a select with a     *)
(* closed channel takes it.                                                *)
(***************************************************************************)
NextHeartbeat ==
    \/ NextJob
    \/ \E id \in 1..MaxID : deleteTodo(LocalNode, id)
    \/ WorkerStop(LocalNode)
    \/ WorkerLoopExit(LocalNode)
    \/ HeartbeatShutdown(LocalNode)

FairHeartbeat ==
    /\ \A n \in Nodes : WF_vars(DeliverUserEvent(n))
    /\ WF_vars(WorkerClaim(LocalNode))
    /\ WF_vars(WorkerStart(LocalNode))
    /\ WF_vars(WorkerProcessed(LocalNode))
    /\ WF_vars(WorkerMarkDone(LocalNode))
    /\ WF_vars(WorkerFinalise(LocalNode))
    /\ WF_vars(HeartbeatBroadcast(LocalNode))
    /\ WF_vars(HeartbeatExit(LocalNode))
    /\ WF_vars(HeartbeatShutdown(LocalNode))

SpecHeartbeat == Init /\ [][NextHeartbeat]_vars /\ FairHeartbeat

\* C34: a heartbeat goroutine that runs comes to its end; the step in which
\* it ends (done closed, shutdown closed, or SendHeartbeat failing because
\* the row is no longer the node's) leaves the worker's job and the table as
\* they are, and the job that ends afterwards leaves its row completed: no
\* row is ever failed.
C34_HeartbeatEnds ==
    /\ \A n \in Nodes : (worker[n].hb # "off") ~> (worker[n].hb = "off")
    /\ [][ \A n \in Nodes :
            /\ (worker[n].hb # "off" /\ worker'[n].hb = "off") =>
                  /\ worker'[n].pc = worker[n].pc
                  /\ worker'[n].todo = worker[n].todo
                  /\ store' = store
            /\ (worker[n].todo # NULL /\ worker'[n].todo = NULL) =>
                  \A r \in store'[n] :
                     r.extern_id = worker[n].todo[1].extern_id
                        => r.processing_status = StatusCompleted
       ]_vars
    /\ [](\A n \in Nodes : \A r \in store[n] : r.processing_status # StatusFailed)

\* SendHeartbeat failed and the goroutine is gone while processJob of the
\* job still runs and no shutdown was signalled.
C34_NotOwnedWhileProcessing ==
    /\ worker[LocalNode].pc = "processing"
    /\ worker[LocalNode].hb = "off"
    /\ StopState(LocalNode).worker.shutdown = 0

\* C35: the heartbeat goroutine of node n calls SendHeartbeat and
\* BroadcastJobHeartbeat only while processJob of its job runs: once
\* processJob has returned, neither call is made for that job.
C35_NoHeartbeatAfterReturn ==
    [][ \A n \in Nodes :
          (HeartbeatSend(n) \/ HeartbeatBroadcast(n)) =>
              /\ worker[n].pc = "processing"
              /\ worker[n].todo # NULL
              /\ worker[n].todo[1].extern_id = worker[n].hbID[1]
      ]_vars

(***************************************************************************)
(* Shutdown of a running node: LocalNode handles events and runs jobs,     *)
(* processJob is followed slice by slice, and Stop is called on the worker *)
(* and on the cluster layer.                                               *)
(***************************************************************************)
\* The slices of sleepInterval that make up the duration of a job.
MaxSlices == 2

\* A processJob whose select has no shutdown case.
ProcessSliceDeaf(n) ==
    /\ worker[n].pc = "processing"
    /\ StopState(n).worker.elapsed < MaxSlices
    /\ SetStop(n, [StopState(n) EXCEPT !.worker.elapsed = @ + 1])
    /\ UNCHANGED <<store, nextID, now, inbox, worker, claimTx, holders, members>>
    /\ handled' = NULL
    /\ UNCHANGED lookup
\* processJob, case <-time.After(sleepInterval): one more slice has elapsed.
\* The timer is new in every select, so with shutdown closed that case is
\* taken instead.
ProcessSlice(n) ==
    /\ worker[n].pc = "processing"
    /\ StopState(n).worker.elapsed < MaxSlices
    /\ StopState(n).worker.shutdown = 0
    /\ SetStop(n, [StopState(n) EXCEPT !.worker.elapsed = @ + 1])
    /\ UNCHANGED <<store, nextID, now, inbox, worker, claimTx, holders, members>>
    /\ handled' = NULL
    /\ UNCHANGED lookup

\* processJob returns nil and heartbeatDone is closed.
ProcessJobReturn(n, byShutdown) ==
    /\ worker' = [worker EXCEPT ![n].pc = "finishing",
                                ![n].hb = IF @ = "on" THEN "closing" ELSE @]
    /\ SetStop(n, [StopState(n) EXCEPT !.worker.elapsed = 0,
                                       !.worker.interrupted = byShutdown])
    /\ UNCHANGED <<store, nextID, now, inbox, claimTx, holders, members>>
    /\ handled' = NULL
    /\ UNCHANGED lookup

\* processJob, case <-w.shutdown: "interrupted by shutdown", return nil.
ProcessJobInterrupted(n) ==
    /\ worker[n].pc = "processing"
    /\ StopState(n).worker.elapsed < MaxSlices
    /\ StopState(n).worker.shutdown > 0
    /\ ProcessJobReturn(n, TRUE)

\* processJob, elapsed >= duration: "finished processing", return nil.
ProcessJobFinished(n) ==
    /\ worker[n].pc = "processing"
    /\ StopState(n).worker.elapsed = MaxSlices
    /\ ProcessJobReturn(n, FALSE)

\* The table the process starts on: empty, or holding the job an earlier
\* process of this node had claimed or was running when it was killed, its
\* last heartbeat older than the stale timeout by now.
ShutdownTables ==
    {{}} \cup {{r} : r \in {q \in RowShapes(1, "x", LocalNode, 1) :
                                /\ q.processing_status \in {StatusClaimed, StatusProcessing}
                                /\ ~q.completed}}

InitShutdown ==
    /\ \E rows \in ShutdownTables :
          /\ store = [n \in Nodes |-> IF n = LocalNode THEN rows ELSE {}]
          /\ nextID = [n \in Nodes |-> IF n = LocalNode THEN Cardinality(rows) + 1 ELSE 1]
    /\ now = MaxTime
    /\ inbox = [n \in Nodes |-> {}]
    /\ worker = [n \in Nodes |-> IdleWorker]
    /\ claimTx = [n \in Nodes |-> NoTx]
    /\ holders = [n \in Nodes |-> {}]
    /\ members = {}
    /\ handled = NULL
    /\ lookup = NULL
    /\ boot = Running

NextShutdown ==
    \/ \E x \in ExternIDs : createTodo(LocalNode, x, "a")
    \/ checkStaleJobs(LocalNode)
    \/ ReceiveRunning(LocalNode)
    \/ WorkerDispatch(LocalNode)
    \/ WorkerClaim(LocalNode)
    \/ WorkerStart(LocalNode)
    \/ HeartbeatTick(LocalNode)
    \/ HeartbeatExit(LocalNode)
    \/ HeartbeatShutdown(LocalNode)
    \/ ProcessSlice(LocalNode)
    \/ ProcessJobInterrupted(LocalNode)
    \/ ProcessJobFinished(LocalNode)
    \/ WorkerMarkDone(LocalNode)
    \/ WorkerFinalise(LocalNode)
    \/ ClusterStop(LocalNode)
    \/ WorkerStop(LocalNode)
    \/ EventLoopExit(LocalNode)
    \/ WorkerLoopExit(LocalNode)

\* A call that was entered returns, and a select takes a case that is ready
\* again and again (it chooses among the ready cases at random).
FairShutdown ==
    /\ WF_vars(WorkerClaim(LocalNode))
    /\ WF_vars(WorkerStart(LocalNode))
    /\ WF_vars(ProcessJobInterrupted(LocalNode))
    /\ WF_vars(ProcessJobFinished(LocalNode))
    /\ WF_vars(ProcessSlice(LocalNode))
    /\ WF_vars(WorkerMarkDone(LocalNode))
    /\ WF_vars(WorkerFinalise(LocalNode))
    /\ WF_vars(HeartbeatExit(LocalNode))
    /\ WF_vars(HeartbeatShutdown(LocalNode))
    /\ SF_vars(WorkerLoopExit(LocalNode))
    /\ SF_vars(EventLoopExit(LocalNode))

SpecShutdown == InitShutdown /\ [][NextShutdown]_vars /\ FairShutdown

\* C36: once the worker's shutdown is closed, workerLoop returns and the
\* heartbeat goroutine is gone, and a processJob that runs returns without
\* another slice; once the cluster's shutdown is closed, handleEvents
\* returns; when workerLoop has returned, no tryClaimAndProcess and no
\* checkStaleJobs starts.
C36_ShutdownEndsTasks ==
    /\ \A n \in Nodes :
          (StopState(n).worker.shutdown > 0)
             ~> (worker[n].pc = "exited" /\ worker[n].hb = "off")
    /\ \A n \in Nodes :
          (StopState(n).cluster.shutdown > 0)
             ~> (StopState(n).cluster.loop = "exited")
    /\ [][ \A n \in Nodes :
            /\ (n \in DOMAIN boot.stop /\ boot.stop[n].worker.shutdown > 0)
                  => boot'.stop[n].worker.elapsed <= boot.stop[n].worker.elapsed
            /\ worker[n].pc = "exited"
                  => /\ worker'[n].pc = "exited"
                     /\ worker'[n].todo = worker[n].todo
                     /\ claimTx'[n] = claimTx[n]
                     /\ ~checkStaleJobs(n)
       ]_vars

\* Stop was called while processJob had slices left: processJob returned
\* from its shutdown case and workerLoop and heartbeatLoop have returned.
C36_StoppedMidJob ==
    /\ StopState(LocalNode).worker.interrupted
    /\ worker[LocalNode].pc = "exited"
    /\ worker[LocalNode].hb = "off"
    /\ StopState(LocalNode).cluster.loop = "exited"

\* C37: when processJob returned from its shutdown case, the calls that
\* follow in tryClaimAndProcess neither set the job's row to completed nor
\* set its done flag.
C37_AbortedNotCompleted ==
    [][ \A n \in Nodes :
          ( /\ StopState(n).worker.interrupted
            /\ WorkerMarkDone(n) \/ WorkerFinalise(n) )
          => \A r \in store[n], q \in store'[n] :
                ( /\ r.id = q.id
                  /\ r.extern_id = worker[n].todo[1].extern_id
                  /\ q.extern_id = r.extern_id )
                => /\ q.completed = r.completed
                   /\ q.processing_status # StatusCompleted
      ]_vars

\* C38: in the table of every node that runs from an empty database, each
\* row's claimed_by is NULL or the node's own name; no claim, job event,
\* member failure or stale sweep writes the name of a peer.
C38_ClaimerIsSelf ==
    \A n \in Nodes : \A r \in store[n] :
        r.claimed_by = NULL \/ r.claimed_by = Some(n)

\* Node m has just handled the job:claimed event of peer n, which holds the
\* claim in its own table, and m's copy of the row is still unclaimed.
C38_PeerClaimHeard ==
    \E n \in Nodes, m \in Nodes :
        /\ n # m
        /\ handled # NULL
        /\ handled[1].node = m
        /\ handled[1].event.Name = EventJobClaimed
        /\ handled[1].event.NodeID = n
        /\ \E r \in store[n] : r.extern_id = handled[1].event.ExternID
                                 /\ r.claimed_by = Some(n)
        /\ \E q \in store[m] : q.extern_id = handled[1].event.ExternID
                                 /\ q.claimed_by = NULL

(***************************************************************************)
(* markReady statement by statement.  Start and the requestFullSync        *)
(* goroutine call it on the same Cluster without a lock: each reads        *)
(* c.ready, and a caller that read false sets it and closes readyCh.       *)
(***************************************************************************)
\* Start is about to call markReady: no seeds, the last join attempt
\* failed, or the 30 s timeout of the select ran out with readyCh open.
StartCallsMarkReady(p) ==
    \/ p.start = "new" /\ boot.seeds = "none"
    \/ p.start = "join" /\ boot.seeds = "down" /\ p.attempt + 1 = maxRetries
    \/ p.start = "wait" /\ p.closed = 0 /\ Quiet

\* requestFullSync is about to return into its deferred markReady.
SyncCallsMarkReady(p) ==
    \/ p.sync = "query" /\ p.expected = 0 /\ Quiet
    \/ p.sync = "sleep" /\ Quiet

\* The steps of Start that do not call markReady.
StartStep(n) ==
    /\ ~StartCallsMarkReady(boot.proc[n])
    /\ StartBegin(n) \/ JoinAttempt(n) \/ BackoffDone(n) \/ StartWait(n)

\* The response deadline of requestFullSync with broadcasts to wait for.
SyncSleeps(n) ==
    /\ ~SyncCallsMarkReady(boot.proc[n])
    /\ QueryDeadline(n)

\* markReady, if !c.ready, evaluated by Start: on true the caller goes on to
\* the two assignments, on false it returns.
StartReadsReady(n) ==
    LET p == boot.proc[n]
    IN  /\ StartCallsMarkReady(p)
        /\ boot' = [boot EXCEPT !.proc[n].start = IF p.ready THEN "done" ELSE "marking",
                                !.proc[n].lastErr = p.start = "join" \/ @,
                                !.proc[n].attempt = IF p.start = "join" THEN @ + 1 ELSE @]
        /\ StoreUnchanged /\ UNCHANGED <<inbox, members>>

\* The same read in the deferred markReady of requestFullSync.
SyncReadsReady(n) ==
    LET p == boot.proc[n]
    IN  /\ SyncCallsMarkReady(p)
        /\ boot' = [boot EXCEPT !.proc[n].sync = IF p.ready THEN "done" ELSE "marking"]
        /\ StoreUnchanged /\ UNCHANGED <<inbox, members>>

\* markReady, c.ready = true; close(c.readyCh) by Start; the second close of
\* a channel panics.
StartClosesReady(n) ==
    /\ boot.proc[n].start = "marking"
    /\ boot' = [boot EXCEPT !.proc[n].ready = TRUE,
                            !.proc[n].closed = @ + 1,
                            !.proc[n].start = "done"]
    /\ StoreUnchanged /\ UNCHANGED <<inbox, members>>

\* The same two statements in the deferred markReady of requestFullSync.
SyncClosesReady(n) ==
    /\ boot.proc[n].sync = "marking"
    /\ boot' = [boot EXCEPT !.proc[n].ready = TRUE,
                            !.proc[n].closed = @ + 1,
                            !.proc[n].sync = "done"]
    /\ StoreUnchanged /\ UNCHANGED <<inbox, members>>

NextReady ==
    \/ StartStep(Joiner)
    \/ StartReadsReady(Joiner)
    \/ StartClosesReady(Joiner)
    \/ HandleSelfJoin(Joiner)
    \/ \E m \in Nodes : QueryDeliver(m)
    \/ \E ack \in boot.acks : AckDeliver(ack)
    \/ \E m \in Nodes : StreamStep(m)
    \/ \E n \in Nodes : \E e \in inbox[n] : Deliver(n, e, FALSE)
    \/ SyncSleeps(Joiner)
    \/ SyncReadsReady(Joiner)
    \/ SyncClosesReady(Joiner)

SpecReady == InitStart /\ [][NextReady]_vars

\* C39: readyCh of a node is closed at most once, however the markReady
\* calls of Start and of requestFullSync interleave.
C39_ReadyClosedOnce ==
    \A n \in Nodes : boot.proc[n].closed <= 1

====
